---- MODULE Spec2Model ----
(***************************************************************************)
(* A model of the next-up schedule app: the schedule query engine          *)
(* (ScheduleManager), the schedule folder (ScheduleFileManager) and the    *)
(* host's load / reload callbacks.                                         *)
(*                                                                         *)
(* JavaScript strings are modelled as sequences of one-character strings,  *)
(* so that trimming, regular-expression matching, splitting, padding and   *)
(* number formatting are computed character by character.                  *)
(***************************************************************************)
EXTENDS Integers, Sequences, FiniteSets, TLC

VARIABLES
    timeCase,   \* time probe: how the probed text was built (ground truth)
    timeTrace,  \* time probe: the text and the results of the calls made on it
    timeOps,    \* time probe: the calls made, in order
    fmtIn,      \* countdown probe: the remaining seconds handed to the formatters
    fmtOut,     \* countdown probe: what each formatter returned, once called
    scheduleManager,  \* the host's engine: Null, or Some([schedule, config])
    today,      \* the weekday name of the wall clock
    clock,      \* the wall clock's time of day: [hours, minutes, seconds]
    lastQuery,  \* the last engine query made: [op, dateTime, result]
    folder,     \* the schedule folder: its files [name, mtime, content] in readdir order
    appPhase,   \* "launching" before app.whenReady resolves, "running" after
    fileWatcher,    \* the host file manager's watch handle is open
    changeCallback, \* the host file manager's callback: "null", "firstRun" or "reload"
    debounceTimer,  \* the host file manager's timer: "null", "pending" or "expired"
    timers,     \* the timeouts set and neither run nor cleared: [set, left]
    now,        \* watch probe: milliseconds passed
    eventLog,   \* watch probe: the calls and events so far: [at, kind]
    tmpl,       \* template probe: the template, the block and the rendering
    candidate,  \* folder probe: the answer of getMostRecentScheduleFile
    callLog,    \* watch probe: the invocations of the callback, in order: [at, callback]
    tray,       \* the tray: Null, or Some(title)
    updateInterval, \* the one-second display interval is set
    intervals,  \* how many one-second intervals are running
    setupDialog,    \* the initial setup dialog is requested and not yet dismissed
    uncaught,   \* the last exception that left a host handler uncaught: [op, err]
    lastLoad    \* the last loadSchedule call: [n, op, source, err]

timeVars == <<timeCase, timeTrace, timeOps>>

fmtVars == <<fmtIn, fmtOut>>

engineVars == <<scheduleManager, today, clock, lastQuery>>

watchVars == <<now, eventLog, callLog>>

hostVars == <<folder, appPhase, fileWatcher, changeCallback, debounceTimer, timers,
              tray, updateInterval, intervals, setupDialog, uncaught, lastLoad, watchVars,
              candidate, tmpl>>

vars == <<timeCase, timeTrace, timeOps, fmtIn, fmtOut,
          scheduleManager, today, clock, lastQuery,
          folder, appPhase, fileWatcher, changeCallback, debounceTimer, timers,
          tray, updateInterval, intervals, setupDialog, uncaught, lastLoad, now, eventLog, callLog,
          candidate, tmpl>>

(***************************************************************************)
(* Bounds of the model.                                                    *)
(***************************************************************************)
MaxTextLen == 6     \* longest generated raw time text
MaxApply == 2       \* calls made on one probed time text
MaxCountdown == 90000   \* largest remaining-seconds value probed (25 hours)
MaxOverdue == 120       \* remaining seconds are probed down to -MaxOverdue
MaxBlocks == 2      \* longest generated list of blocks for one day
MaxMtime == 1       \* modification times of files are 1..MaxMtime
MaxFiles == 1       \* most files in the schedule folder at once

(***************************************************************************)
(* Characters and strings.                                                 *)
(***************************************************************************)
DigitChars == <<"0", "1", "2", "3", "4", "5", "6", "7", "8", "9">>

IsDigit(c) == \E i \in 1..10 : DigitChars[i] = c

DigitVal(c) == (CHOOSE i \in 1..10 : DigitChars[i] = c) - 1

\* \s of a JavaScript regular expression and the characters trim() strips,
\* over the model's alphabet.
IsSpace(c) == c \in {" ", "\n", "\t"}

\* toLowerCase / the i flag, over the letters of the model's alphabet.
ToLower(c) ==
    CASE c = "A" -> "a"
      [] c = "M" -> "m"
      [] c = "P" -> "p"
      [] OTHER -> c

RECURSIVE TrimStart(_)
TrimStart(s) == IF s # <<>> /\ IsSpace(Head(s)) THEN TrimStart(Tail(s)) ELSE s

RECURSIVE TrimEnd(_)
TrimEnd(s) ==
    IF s # <<>> /\ IsSpace(s[Len(s)]) THEN TrimEnd(SubSeq(s, 1, Len(s) - 1)) ELSE s

\* String.prototype.trim
trim(s) == TrimEnd(TrimStart(s))

\* String(n) for an integer n >= 0
RECURSIVE NatToStr(_)
NatToStr(n) ==
    IF n < 10 THEN <<DigitChars[n + 1]>>
    ELSE NatToStr(n \div 10) \o <<DigitChars[(n % 10) + 1]>>

\* the value of a non-empty string of decimal digits
RECURSIVE DecVal(_)
DecVal(ds) ==
    IF Len(ds) = 0 THEN 0
    ELSE 10 * DecVal(SubSeq(ds, 1, Len(ds) - 1)) + DigitVal(ds[Len(ds)])

\* String.prototype.padStart(2, '0')
padStart2(s) == IF Len(s) < 2 THEN <<"0">> \o s ELSE s

\* JavaScript numbers as the time code meets them: a number, NaN or undefined
Num(n) == [t |-> "num", v |-> n]
NaN == [t |-> "nan", v |-> 0]
Undefined == [t |-> "undef", v |-> 0]

\* Number(str) over the model's alphabet (digits, ':', whitespace, letters):
\* surrounding whitespace is ignored, the empty string is 0, a string of
\* digits is its decimal value, anything else is NaN.
Number(s) ==
    LET t == trim(s)
    IN  IF t = <<>> THEN Num(0)
        ELSE IF \A i \in 1..Len(t) : IsDigit(t[i]) THEN Num(DecVal(t))
        ELSE NaN

\* String(x) of such a value
NumToStr(x) ==
    CASE x.t = "num" -> NatToStr(x.v)
      [] x.t = "nan" -> <<"N", "a", "N">>
      [] OTHER -> <<"u", "n", "d", "e", "f", "i", "n", "e", "d">>

\* String.prototype.split(':')
RECURSIVE split(_)
split(s) ==
    IF \A i \in 1..Len(s) : s[i] # ":" THEN <<s>>
    ELSE LET c == CHOOSE i \in 1..Len(s) :
                      s[i] = ":" /\ \A j \in 1..(i - 1) : s[j] # ":"
         IN  <<SubSeq(s, 1, c - 1)>> \o split(SubSeq(s, c + 1, Len(s)))

\* results of calls that may throw
Ok(v) == [ok |-> TRUE, val |-> v, err |-> ""]
Threw(msg) == [ok |-> FALSE, val |-> <<>>, err |-> msg]

(***************************************************************************)
(* ScheduleManager: time normalisation.                                    *)
(***************************************************************************)
\* /am|pm/i.test(s)
HasMarker(s) ==
    \E i \in 1..(Len(s) - 1) :
        ToLower(s[i]) \in {"a", "p"} /\ ToLower(s[i + 1]) = "m"

\* the index after the whitespace run that starts at i (greedy \s*)
RECURSIVE SkipSpaces(_, _)
SkipSpaces(s, i) ==
    IF i <= Len(s) /\ IsSpace(s[i]) THEN SkipSpaces(s, i + 1) ELSE i

\* (am|pm) with the i flag at index j
MarkerAt(s, j) ==
    /\ j + 1 <= Len(s)
    /\ ToLower(s[j]) \in {"a", "p"}
    /\ ToLower(s[j + 1]) = "m"

\* /(\d{1,2}):(\d{2})\s*(am|pm)/i matches at index i with an n-digit hour
MatchAt(s, i, n) ==
    LET c == i + n
    IN  /\ c + 2 <= Len(s)
        /\ \A k \in i..(c - 1) : IsDigit(s[k])
        /\ s[c] = ":"
        /\ IsDigit(s[c + 1])
        /\ IsDigit(s[c + 2])
        /\ MarkerAt(s, SkipSpaces(s, c + 3))

\* the lower-cased marker at index j
PeriodAt(s, j) == <<ToLower(s[j]), ToLower(s[j + 1])>>

\* the groups of the match at index i with an n-digit hour
MatchGroups(s, i, n) ==
    LET c == i + n
    IN  [matched |-> TRUE,
         hours |-> SubSeq(s, i, c - 1),
         minutes |-> SubSeq(s, c + 1, c + 2),
         period |-> PeriodAt(s, SkipSpaces(s, c + 3))]

\* the match at index i: the hour takes two digits when it can
MatchGroupsAt(s, i) == MatchGroups(s, i, IF MatchAt(s, i, 2) THEN 2 ELSE 1)

\* the leftmost of the indices where the pattern matches
Leftmost(starts) == CHOOSE k \in starts : \A o \in starts : k <= o

Match12From(s, starts) ==
    IF starts = {}
    THEN [matched |-> FALSE, hours |-> <<>>, minutes |-> <<>>, period |-> <<>>]
    ELSE MatchGroupsAt(s, Leftmost(starts))

\* s.match(/(\d{1,2}):(\d{2})\s*(am|pm)/i): the leftmost match, the hour
\* taking two digits when it can; the groups, or matched = FALSE
Match12(s) ==
    Match12From(s, {i \in 1..Len(s) : MatchAt(s, i, 2) \/ MatchAt(s, i, 1)})

\* the hour conversion without the "hours !== 12" guard of the PM branch
Hours24_NoonGains12(parsed, period) ==
    IF period = <<"p", "m">> THEN parsed + 12
    ELSE IF period = <<"a", "m">> /\ parsed = 12 THEN 0
    ELSE parsed

\* the PM / AM conversion of the parsed hour
Hours24(parsed, period) ==
    IF period = <<"p", "m">> /\ parsed # 12 THEN parsed + 12
    ELSE IF period = <<"a", "m">> /\ parsed = 12 THEN 0
    ELSE parsed

\* the 12-hour branch returning the text as it is when the pattern is not found
NormalizeMatch_NoThrow(trimmed, match) ==
    IF ~match.matched THEN Ok(trimmed)
    ELSE Ok(padStart2(NatToStr(Hours24(DecVal(match.hours), match.period)))
                \o <<":">> \o match.minutes)

\* the 12-hour branch of normalizeTo24Hour, from the result of match() on
NormalizeMatch(trimmed, match) ==
    IF ~match.matched THEN Threw("Invalid 12-hour time format")
    ELSE Ok(padStart2(NatToStr(Hours24(DecVal(match.hours), match.period)))
                \o <<":">> \o match.minutes)

NormalizeTrimmed(trimmed) ==
    IF HasMarker(trimmed) THEN NormalizeMatch(trimmed, Match12(trimmed)) ELSE Ok(trimmed)

normalizeTo24Hour(timeStr) == NormalizeTrimmed(trim(timeStr))

\* the [hours, minutes] destructuring of parts.map(Number)
PartsToNumbers(parts) ==
    [hours |-> Number(parts[1]),
     minutes |-> IF Len(parts) >= 2 THEN Number(parts[2]) ELSE Undefined]

\* the [hours, minutes] destructuring of str.split(':').map(Number)
HoursMinutes(str) == PartsToNumbers(split(str))

\* the 12-hour rendering of [hours, minutes]
Format12(hours, minutes) ==
    NumToStr(IF hours.t = "num" /\ hours.v % 12 # 0 THEN Num(hours.v % 12) ELSE Num(12))
        \o <<":">> \o padStart2(NumToStr(minutes)) \o <<" ">>
        \o (IF hours.t = "num" /\ hours.v >= 12 THEN <<"P", "M">> ELSE <<"A", "M">>)

Format12Of(hm) == Format12(hm.hours, hm.minutes)

formatTo12Hour(timeStr) == Format12Of(HoursMinutes(timeStr))

\* hours * 60 + minutes; NaN when either part is not a number
MinutesOf(hm) ==
    IF hm.hours.t = "num" /\ hm.minutes.t = "num"
    THEN Ok(Num(hm.hours.v * 60 + hm.minutes.v))
    ELSE Ok(NaN)

MinutesOfNormalized(normalized) ==
    IF ~normalized.ok THEN normalized ELSE MinutesOf(HoursMinutes(normalized.val))

\* timeToMinutes: the normalised text split on ':' into hours * 60 + minutes
timeToMinutes(timeStr) == MinutesOfNormalized(normalizeTo24Hour(timeStr))

(***************************************************************************)
(* ScheduleManager: the queries.  "Block or null" and "string or null"     *)
(* are sequences of length 1 or 0.  A moment is [hours, minutes, seconds]. *)
(* The engine is [schedule, config]; dayName is the weekday name of the    *)
(* wall clock, which getTodaySchedule reads whatever moment is asked for.  *)
(***************************************************************************)
Null == <<>>
Some(x) == <<x>>

\* a >= b, a < b and a > b on JavaScript numbers: false when either is NaN
NumGe(a, b) == a.t = "num" /\ b.t = "num" /\ a.v >= b.v
NumLt(a, b) == a.t = "num" /\ b.t = "num" /\ a.v < b.v
NumGt(a, b) == a.t = "num" /\ b.t = "num" /\ a.v > b.v

getTodaySchedule(schedule, dayName) ==
    IF dayName \in DOMAIN schedule.days THEN schedule.days[dayName] ELSE <<>>

CurrentMinutes(dateTime) == dateTime.hours * 60 + dateTime.minutes

\* the find() predicate of getCurrentClass with an inclusive end
IsCurrent_EndInclusive(currentMinutes, startMinutes, endMinutes) ==
    IF ~startMinutes.ok THEN Threw(startMinutes.err)
    ELSE IF ~endMinutes.ok THEN Threw(endMinutes.err)
    ELSE Ok(NumGe(Num(currentMinutes), startMinutes.val)
                /\ NumGe(endMinutes.val, Num(currentMinutes)))

\* the find() predicate of getCurrentClass: both times of the element are
\* converted before they are compared
IsCurrent(currentMinutes, startMinutes, endMinutes) ==
    IF ~startMinutes.ok THEN Threw(startMinutes.err)
    ELSE IF ~endMinutes.ok THEN Threw(endMinutes.err)
    ELSE Ok(NumGe(Num(currentMinutes), startMinutes.val)
                /\ NumLt(Num(currentMinutes), endMinutes.val))

\* todaySchedule.find(cls => start <= currentMinutes < end), from index i on
RECURSIVE FindCurrent(_, _, _)
RECURSIVE FindCurrentStep(_, _, _, _)
FindCurrentStep(todaySchedule, i, currentMinutes, hit) ==
    IF ~hit.ok THEN hit
    ELSE IF hit.val THEN Ok(Some(todaySchedule[i]))
    ELSE FindCurrent(todaySchedule, i + 1, currentMinutes)

FindCurrent(todaySchedule, i, currentMinutes) ==
    IF i > Len(todaySchedule) THEN Ok(Null)
    ELSE FindCurrentStep(todaySchedule, i, currentMinutes,
             IsCurrent(currentMinutes, timeToMinutes(todaySchedule[i].startTime),
                       timeToMinutes(todaySchedule[i].endTime)))

getCurrentClass(engine, dayName, dateTime) ==
    FindCurrent(getTodaySchedule(engine.schedule, dayName), 1, CurrentMinutes(dateTime))

\* the find() predicate of getNextClass accepting a start at the current minute
IsLater_StartInclusive(currentMinutes, startMinutes) ==
    IF ~startMinutes.ok THEN Threw(startMinutes.err)
    ELSE Ok(NumGe(startMinutes.val, Num(currentMinutes)))

\* the find() predicate of getNextClass
IsLater(currentMinutes, startMinutes) ==
    IF ~startMinutes.ok THEN Threw(startMinutes.err)
    ELSE Ok(NumGt(startMinutes.val, Num(currentMinutes)))

\* todaySchedule.find(cls => start > currentMinutes), from index i on
RECURSIVE FindNext(_, _, _)
RECURSIVE FindNextStep(_, _, _, _)
FindNextStep(todaySchedule, i, currentMinutes, hit) ==
    IF ~hit.ok THEN hit
    ELSE IF hit.val THEN Ok(Some(todaySchedule[i]))
    ELSE FindNext(todaySchedule, i + 1, currentMinutes)

FindNext(todaySchedule, i, currentMinutes) ==
    IF i > Len(todaySchedule) THEN Ok(Null)
    ELSE FindNextStep(todaySchedule, i, currentMinutes,
             IsLater(currentMinutes, timeToMinutes(todaySchedule[i].startTime)))

getNextClass(engine, dayName, dateTime) ==
    FindNext(getTodaySchedule(engine.schedule, dayName), 1, CurrentMinutes(dateTime))

\* the seconds of the moment counted from 1 to 60
TotalCurrentSeconds_SecondsFromOne(dateTime) ==
    CurrentMinutes(dateTime) * 60 + dateTime.seconds + 1

\* currentMinutes * 60 + dateTime.getSeconds()
TotalCurrentSeconds(dateTime) == CurrentMinutes(dateTime) * 60 + dateTime.seconds

\* the hours / minutes / seconds rendering both countdown methods share;
\* remainingSeconds > 0
Countdown(remainingSeconds) ==
    LET hours == remainingSeconds \div 3600
        minutes == (remainingSeconds % 3600) \div 60
        seconds == remainingSeconds % 60
    IN  IF hours > 0
        THEN NatToStr(hours) \o <<":">> \o padStart2(NatToStr(minutes))
                 \o <<":">> \o padStart2(NatToStr(seconds))
        ELSE NatToStr(minutes) \o <<":">> \o padStart2(NatToStr(seconds))

ZeroCountdown == <<"0", ":", "0", "0", ":", "0", "0">>

\* getTimeRemainingInClass clamping only below zero
RemainingCountdown_ZeroNotClamped(remainingSeconds) ==
    IF remainingSeconds < 0 THEN ZeroCountdown ELSE Countdown(remainingSeconds)

\* getTimeRemainingInClass without zero-padding the seconds
RemainingCountdown_NoPad(remainingSeconds) ==
    IF remainingSeconds <= 0 THEN ZeroCountdown
    ELSE LET hours == remainingSeconds \div 3600
             minutes == (remainingSeconds % 3600) \div 60
             seconds == remainingSeconds % 60
         IN  IF hours > 0
             THEN NatToStr(hours) \o <<":">> \o padStart2(NatToStr(minutes))
                      \o <<":">> \o NatToStr(seconds)
             ELSE NatToStr(minutes) \o <<":">> \o NatToStr(seconds)

\* getTimeRemainingInClass from the remaining seconds on
RemainingCountdown(remainingSeconds) ==
    IF remainingSeconds <= 0 THEN ZeroCountdown ELSE Countdown(remainingSeconds)

\* getTimeUntilNextClass from the remaining seconds on
UntilNextCountdown(remainingSeconds) ==
    IF remainingSeconds <= 0 THEN ZeroCountdown ELSE Countdown(remainingSeconds)

\* getTimeRemainingInClass from the current block on; the end time of a
\* current block is a number
RemainingIn(currentClass, dateTime) ==
    IF ~currentClass.ok THEN currentClass
    ELSE IF currentClass.val = Null THEN Ok(Null)
    ELSE Ok(Some(RemainingCountdown(
                timeToMinutes(currentClass.val[1].endTime).val.v * 60
                    - TotalCurrentSeconds(dateTime))))

getTimeRemainingInClass(engine, dayName, dateTime) ==
    RemainingIn(getCurrentClass(engine, dayName, dateTime), dateTime)

\* getTimeUntilNextClass from the next block on; the start time of a next
\* block is a number
UntilNext(nextClass, dateTime) ==
    IF ~nextClass.ok THEN nextClass
    ELSE IF nextClass.val = Null THEN Ok(Null)
    ELSE Ok(Some(UntilNextCountdown(
                timeToMinutes(nextClass.val[1].startTime).val.v * 60
                    - TotalCurrentSeconds(dateTime))))

getTimeUntilNextClass(engine, dayName, dateTime) ==
    UntilNext(getNextClass(engine, dayName, dateTime), dateTime)

MinutesUntilNext(nextClass, dateTime) ==
    IF ~nextClass.ok THEN nextClass
    ELSE IF nextClass.val = Null THEN Ok(Null)
    ELSE Ok(Some(timeToMinutes(nextClass.val[1].startTime).val.v
                     - CurrentMinutes(dateTime)))

getMinutesUntilNextClass(engine, dayName, dateTime) ==
    MinutesUntilNext(getNextClass(engine, dayName, dateTime), dateTime)

DoneIn == <<"D", "o", "n", "e", " ", "I", "n", ":", " ">>
NextIn == <<"N", "e", "x", "t", " ", "I", "n", ":", " ">>

\* "Done In: " + x, where x is a string or null
ConcatNullable(prefix, x) == prefix \o (IF x = Null THEN <<"n", "u", "l", "l">> ELSE x[1])

\* the branch of getDisplayTime taken while a block is current
DoneInText(remaining) ==
    IF ~remaining.ok THEN remaining ELSE Ok(ConcatNullable(DoneIn, remaining.val))

\* the no-current-block branch with a strict threshold comparison
NextInText_StrictThreshold(config, timeUntilNext, minutesUntilNext) ==
    IF ~timeUntilNext.ok THEN timeUntilNext
    ELSE IF timeUntilNext.val # Null
            /\ minutesUntilNext.val[1] < config.countdownThreshold
    THEN Ok(NextIn \o timeUntilNext.val[1])
    ELSE Ok(config.noClassText)

\* the branch of getDisplayTime taken while no block is current;
\* getMinutesUntilNextClass is called only when timeUntilNext is not null
NextInText(config, timeUntilNext, minutesUntilNext) ==
    IF ~timeUntilNext.ok THEN timeUntilNext
    ELSE IF timeUntilNext.val # Null
            /\ minutesUntilNext.val[1] <= config.countdownThreshold
    THEN Ok(NextIn \o timeUntilNext.val[1])
    ELSE Ok(config.noClassText)

\* getDisplayTime preferring a near next block to the current one
DisplayFor_NextFirst(engine, dayName, dateTime, currentClass) ==
    IF ~currentClass.ok THEN currentClass
    ELSE IF currentClass.val # Null
            /\ NextInText(engine.config, getTimeUntilNextClass(engine, dayName, dateTime),
                   getMinutesUntilNextClass(engine, dayName, dateTime))
                 = Ok(engine.config.noClassText)
    THEN DoneInText(getTimeRemainingInClass(engine, dayName, dateTime))
    ELSE NextInText(engine.config, getTimeUntilNextClass(engine, dayName, dateTime),
                    getMinutesUntilNextClass(engine, dayName, dateTime))

\* getDisplayTime from the current block on
DisplayFor(engine, dayName, dateTime, currentClass) ==
    IF ~currentClass.ok THEN currentClass
    ELSE IF currentClass.val # Null
    THEN DoneInText(getTimeRemainingInClass(engine, dayName, dateTime))
    ELSE NextInText(engine.config, getTimeUntilNextClass(engine, dayName, dateTime),
                    getMinutesUntilNextClass(engine, dayName, dateTime))

getDisplayTime(engine, dayName, dateTime) ==
    DisplayFor(engine, dayName, dateTime, getCurrentClass(engine, dayName, dateTime))

(***************************************************************************)
(* Time probe: normalizeTo24Hour and formatTo12Hour applied to time texts. *)
(* A probed text is built from known hour / minute values (24-hour or      *)
(* 12-hour notation) or is raw text over a small alphabet.                 *)
(***************************************************************************)
D2(n) == <<DigitChars[(n \div 10) + 1], DigitChars[(n % 10) + 1]>>

\* zero-padded 24-hour text "HH:MM"
Text24(h, m) == D2(h) \o <<":">> \o D2(m)

\* 12-hour text: style 0 is "H:MM AM", style 1 is "H:MMam", style 2 is " HH:MM  pM "
Text12(h12, m, pm, style) ==
    LET hh == IF h12 >= 10 THEN D2(h12) ELSE <<DigitChars[h12 + 1]>>
    IN  CASE style = 0 -> hh \o <<":">> \o D2(m) \o <<" ">>
                             \o (IF pm THEN <<"P", "M">> ELSE <<"A", "M">>)
          [] style = 1 -> hh \o <<":">> \o D2(m)
                             \o (IF pm THEN <<"p", "m">> ELSE <<"a", "m">>)
          [] OTHER -> <<" ">> \o D2(h12) \o <<":">> \o D2(m) \o <<" ", " ">>
                             \o (IF pm THEN <<"p", "M">> ELSE <<"a", "M">>) \o <<" ">>

RawAlphabet == {"1", ":", " ", "A", "m"}

RawTexts == UNION {[1..n -> RawAlphabet] : n \in 0..MaxTextLen}

\* hand-picked texts outside the generated ones
ExtraTexts ==
    { <<"1", "2", "3", ":", "4", "5", "p", "m">>,
      <<"9", " ", "A", "M">>,
      <<"9", ":", "0", "0", "0", " ", "P", "M">>,
      <<"p", "m", " ", "9", ":", "0", "0">>,
      <<"1", ":", "3", "0", "\t", "P", "m", "!", "!">>,
      <<" ", "0", "9", ":", "0", "0", " ">>,
      <<"9", ":", "3", "0", "\n">>,
      <<"9", "0", "0">> }

TimeCases ==
    {[src |-> "h24", h |-> h, m |-> m, pm |-> FALSE, style |-> 0, text |-> Text24(h, m)] :
        h \in 0..23, m \in 0..59}
    \cup
    {[src |-> "h12", h |-> c[1], m |-> c[2], pm |-> c[3], style |-> c[4],
      text |-> Text12(c[1], c[2], c[3], c[4])] :
        c \in (1..12) \X {0, 5, 30, 59} \X BOOLEAN \X {0, 1, 2}}
    \cup
    {[src |-> "raw", h |-> 0, m |-> 0, pm |-> FALSE, style |-> 0, text |-> t] :
        t \in RawTexts \cup ExtraTexts}

\* the probes at rest
TimeIdle ==
    /\ timeCase = [src |-> "raw", h |-> 0, m |-> 0, pm |-> FALSE, style |-> 0, text |-> <<>>]
    /\ timeTrace = <<Ok(<<>>)>>
    /\ timeOps = <<>>

FmtIdle ==
    /\ fmtIn = 0
    /\ fmtOut = [remaining |-> Null, untilNext |-> Null]

NoQuery == [op |-> "none", dateTime |-> [hours |-> 0, minutes |-> 0, seconds |-> 0],
            result |-> Ok(<<>>)]

EngineIdle ==
    /\ scheduleManager = Null
    /\ today = "Monday"
    /\ clock = [hours |-> 0, minutes |-> 0, seconds |-> 0]
    /\ lastQuery = NoQuery

NoUncaught == [op |-> "none", err |-> ""]

NoLoad == [op |-> "none", source |-> "none", err |-> ""]

NoTemplate ==
    [pieces |-> <<>>, block |-> <<>>, done |-> FALSE, rendered |-> <<>>, lines |-> <<>>,
     err |-> ""]

HostIdle ==
    /\ folder = <<>>
    /\ appPhase = "launching"
    /\ fileWatcher = FALSE
    /\ changeCallback = "null"
    /\ debounceTimer = "null"
    /\ timers = {}
    /\ now = 0
    /\ eventLog = {}
    /\ callLog = <<>>
    /\ candidate = Null
    /\ tmpl = NoTemplate
    /\ tray = Null
    /\ updateInterval = FALSE
    /\ intervals = 0
    /\ setupDialog = FALSE
    /\ uncaught = NoUncaught
    /\ lastLoad = NoLoad

TimeInit ==
    /\ timeCase \in TimeCases
    /\ timeTrace = <<Ok(timeCase.text)>>
    /\ timeOps = <<>>
    /\ FmtIdle
    /\ EngineIdle
    /\ HostIdle

TimeCallable == Len(timeOps) < MaxApply /\ timeTrace[Len(timeTrace)].ok

CallNormalize ==
    /\ TimeCallable
    /\ timeTrace' = Append(timeTrace, normalizeTo24Hour(timeTrace[Len(timeTrace)].val))
    /\ timeOps' = Append(timeOps, "normalizeTo24Hour")
    /\ UNCHANGED <<timeCase, fmtVars, engineVars, hostVars>>

CallFormat ==
    /\ TimeCallable
    /\ timeTrace' = Append(timeTrace, Ok(formatTo12Hour(timeTrace[Len(timeTrace)].val)))
    /\ timeOps' = Append(timeOps, "formatTo12Hour")
    /\ UNCHANGED <<timeCase, fmtVars, engineVars, hostVars>>

TimeNext == CallNormalize \/ CallFormat

SpecTime == TimeInit /\ [][TimeNext]_vars

(***************************************************************************)
(* Claims about the time normaliser.                                       *)
(***************************************************************************)
NormalizeOp == "normalizeTo24Hour"
FormatOp == "formatTo12Hour"

\* the 24-hour hour of a 12-hour clock reading
Hour24Of(h12, pm) ==
    IF pm THEN (IF h12 = 12 THEN 12 ELSE h12 + 12) ELSE (IF h12 = 12 THEN 0 ELSE h12)

\* C7: on every zero-padded "HH:MM" (HH in 00..23, MM in 00..59)
\* normalizeTo24Hour returns the text itself, applying it twice returns the
\* same text again, and normalizeTo24Hour(formatTo12Hour(t)) = t; a 12-hour
\* text normalises with 12 AM as hour 0, 12 PM as hour 12 and every other PM
\* hour gaining 12.
C7_NormalizeIdempotentAndInvertsFormat ==
    /\ (timeCase.src = "h24" /\ Len(timeOps) >= 1 /\ timeOps[1] = NormalizeOp)
          => timeTrace[2] = Ok(timeCase.text)
    /\ (timeCase.src = "h24" /\ timeOps = <<NormalizeOp, NormalizeOp>>)
          => (timeTrace[3] = timeTrace[2] /\ timeTrace[3] = Ok(timeCase.text))
    /\ (timeCase.src = "h24" /\ timeOps = <<FormatOp, NormalizeOp>>)
          => timeTrace[3] = Ok(timeCase.text)
    /\ (timeCase.src = "h12" /\ Len(timeOps) >= 1 /\ timeOps[1] = NormalizeOp)
          => timeTrace[2] = Ok(Text24(Hour24Of(timeCase.h, timeCase.pm), timeCase.m))

\* C7 witness: "12:30" was formatted to "12:30 PM" and normalised back
C7_Witness ==
    /\ timeCase.src = "h24" /\ timeCase.h = 12 /\ timeCase.m = 30
    /\ timeOps = <<FormatOp, NormalizeOp>>
    /\ timeTrace[2].val = <<"1", "2", ":", "3", "0", " ", "P", "M">>
    /\ timeTrace[3].val = <<"1", "2", ":", "3", "0">>

\* the text holds "am" or "pm" in any letter case
ContainsMarker(t) ==
    \E i \in 1..(Len(t) - 1) :
        t[i] \in {"a", "A", "p", "P"} /\ t[i + 1] \in {"m", "M"}

\* somewhere in the text: 1-2 digits, a colon, 2 digits, any whitespace, a marker
ContainsPattern(t) ==
    \E i \in 1..Len(t), n \in {1, 2}, k \in 0..Len(t) :
        /\ i + n + 4 + k <= Len(t)
        /\ \A d \in i..(i + n - 1) : IsDigit(t[d])
        /\ t[i + n] = ":"
        /\ IsDigit(t[i + n + 1]) /\ IsDigit(t[i + n + 2])
        /\ \A w \in (i + n + 3)..(i + n + 2 + k) : t[w] \in {" ", "\t", "\n"}
        /\ t[i + n + 3 + k] \in {"a", "A", "p", "P"}
        /\ t[i + n + 4 + k] \in {"m", "M"}

\* r is t without its leading and trailing whitespace
IsTrimOf(r, t) ==
    \E i \in 1..(Len(t) + 1), j \in 0..Len(t) :
        /\ r = SubSeq(t, i, j)
        /\ \A w \in (1..(i - 1)) \cup ((j + 1)..Len(t)) : t[w] \in {" ", "\t", "\n"}
        /\ (r # <<>> => (r[1] \notin {" ", "\t", "\n"} /\ r[Len(r)] \notin {" ", "\t", "\n"}))

TimeNormalizedFirst == Len(timeOps) >= 1 /\ timeOps[1] = NormalizeOp

\* C8 as stated: with a marker and no match of the pattern the call fails
\* with the parse error; without a marker the text is returned verbatim.
C8_Original ==
    TimeNormalizedFirst =>
        /\ (ContainsMarker(timeCase.text) /\ ~ContainsPattern(timeCase.text))
              => (~timeTrace[2].ok /\ timeTrace[2].err = "Invalid 12-hour time format")
        /\ ~ContainsMarker(timeCase.text)
              => (timeTrace[2].ok /\ timeTrace[2].val = timeCase.text)

\* C8 amended: with an AM/PM marker and no match of the pattern anywhere in
\* the text the call fails with the parse error; without a marker the call
\* never fails and returns the text with its leading and trailing whitespace
\* removed (not verbatim), with no validation.
C8_NormalizeRejectsOrTrims ==
    TimeNormalizedFirst =>
        /\ (ContainsMarker(timeCase.text) /\ ~ContainsPattern(timeCase.text))
              => (~timeTrace[2].ok /\ timeTrace[2].err = "Invalid 12-hour time format")
        /\ ~ContainsMarker(timeCase.text)
              => (timeTrace[2].ok /\ IsTrimOf(timeTrace[2].val, timeCase.text))

\* C8 witness: "9 AM" was rejected
C8_Witness ==
    /\ timeCase.text = <<"9", " ", "A", "M">>
    /\ timeOps = <<NormalizeOp>>
    /\ ~timeTrace[2].ok

\* a marker-free text with surrounding whitespace was returned trimmed
C8_TrimWitness ==
    /\ timeCase.text = <<" ", "0", "9", ":", "0", "0", " ">>
    /\ timeOps = <<NormalizeOp>>
    /\ timeTrace[2] = Ok(<<"0", "9", ":", "0", "0">>)

(***************************************************************************)
(* Countdown probe: the two countdown renderings applied to a signed       *)
(* number of remaining seconds.                                            *)
(***************************************************************************)
FmtInit ==
    /\ fmtIn \in (-MaxOverdue)..MaxCountdown
    /\ fmtOut = [remaining |-> Null, untilNext |-> Null]
    /\ TimeIdle
    /\ EngineIdle
    /\ HostIdle

FormatRemaining ==
    /\ fmtOut.remaining = Null
    /\ fmtOut' = [fmtOut EXCEPT !.remaining = Some(RemainingCountdown(fmtIn))]
    /\ UNCHANGED <<fmtIn, timeVars, engineVars, hostVars>>

FormatUntilNext ==
    /\ fmtOut.untilNext = Null
    /\ fmtOut' = [fmtOut EXCEPT !.untilNext = Some(UntilNextCountdown(fmtIn))]
    /\ UNCHANGED <<fmtIn, timeVars, engineVars, hostVars>>

FmtNext == FormatRemaining \/ FormatUntilNext

SpecFmt == FmtInit /\ [][FmtNext]_vars

\* C5: for every remaining-seconds value <= 0 both countdown renderings are
\* exactly "0:00:00", and no rendering holds a minus sign: it is made of
\* digits and colons only.
C5_NonPositiveIsZero ==
    /\ \A out \in {fmtOut.remaining, fmtOut.untilNext} :
          out # Null =>
              \A i \in 1..Len(out[1]) :
                  out[1][i] \in {"0", "1", "2", "3", "4", "5", "6", "7", "8", "9", ":"}
    /\ fmtIn <= 0 =>
          /\ fmtOut.remaining # Null
                => fmtOut.remaining[1] = <<"0", ":", "0", "0", ":", "0", "0">>
          /\ fmtOut.untilNext # Null
                => fmtOut.untilNext[1] = <<"0", ":", "0", "0", ":", "0", "0">>

\* C5 witness: both renderings were made of exactly 0 remaining seconds
C5_Witness ==
    /\ fmtIn = 0
    /\ fmtOut.remaining = Some(<<"0", ":", "0", "0", ":", "0", "0">>)
    /\ fmtOut.untilNext = Some(<<"0", ":", "0", "0", ":", "0", "0">>)

\* ds is a decimal numeral without a leading zero (or "0" itself) of value n
IsDecimalOf(ds, n) ==
    /\ Len(ds) >= 1
    /\ \A i \in 1..Len(ds) : IsDigit(ds[i])
    /\ (Len(ds) > 1 => ds[1] # "0")
    /\ DecVal(ds) = n

\* ds is two digits of value n < 60
IsTwoDigitsOf(ds, n) ==
    Len(ds) = 2 /\ IsDigit(ds[1]) /\ IsDigit(ds[2]) /\ DecVal(ds) = n /\ n < 60

\* str reads "H:MM:SS" when secs make an hour or more and "M:SS" otherwise,
\* and the fields read back add up to secs
IsCountdownOf(str, secs) ==
    LET n == Len(str)
    IN  /\ n >= 4
        /\ str[n - 2] = ":"
        /\ IsTwoDigitsOf(SubSeq(str, n - 1, n), secs % 60)
        /\ IF secs >= 3600
           THEN /\ n >= 7
                /\ str[n - 5] = ":"
                /\ IsTwoDigitsOf(SubSeq(str, n - 4, n - 3), (secs \div 60) % 60)
                /\ IsDecimalOf(SubSeq(str, 1, n - 6), secs \div 3600)
           ELSE IsDecimalOf(SubSeq(str, 1, n - 3), secs \div 60)

\* C6: for every positive remaining-seconds value the countdown is "H:MM:SS"
\* (hours unpadded, minutes and seconds two digits) when there is a whole
\* hour and "M:SS" (minutes unpadded, seconds two digits) otherwise; both
\* renderings give the same string; 35 minutes 0 seconds render as "35:00".
C6_CountdownFormat ==
    fmtIn > 0 =>
        /\ fmtOut.remaining # Null => IsCountdownOf(fmtOut.remaining[1], fmtIn)
        /\ fmtOut.untilNext # Null => IsCountdownOf(fmtOut.untilNext[1], fmtIn)
        /\ (fmtOut.remaining # Null /\ fmtOut.untilNext # Null)
              => fmtOut.remaining = fmtOut.untilNext
        /\ (fmtIn = 35 * 60 /\ fmtOut.remaining # Null)
              => fmtOut.remaining[1] = <<"3", "5", ":", "0", "0">>

\* C6 witness: 1 hour 5 minutes 9 seconds rendered by both as "1:05:09"
C6_Witness ==
    /\ fmtIn = 3909
    /\ fmtOut.remaining = Some(<<"1", ":", "0", "5", ":", "0", "9">>)
    /\ fmtOut.untilNext = fmtOut.remaining

(***************************************************************************)
(* Engine queries.  Each query is made at the wall clock's moment, as the  *)
(* host makes it (dateTime = new Date()).                                  *)
(***************************************************************************)
QueryCurrentClass ==
    /\ scheduleManager # Null
    /\ lastQuery' = [op |-> "getCurrentClass", dateTime |-> clock,
                     result |-> getCurrentClass(scheduleManager[1], today, clock)]
    /\ UNCHANGED <<scheduleManager, today, clock, timeVars, fmtVars, hostVars>>

QueryNextClass ==
    /\ scheduleManager # Null
    /\ lastQuery' = [op |-> "getNextClass", dateTime |-> clock,
                     result |-> getNextClass(scheduleManager[1], today, clock)]
    /\ UNCHANGED <<scheduleManager, today, clock, timeVars, fmtVars, hostVars>>

QueryTimeRemainingInClass ==
    /\ scheduleManager # Null
    /\ lastQuery' = [op |-> "getTimeRemainingInClass", dateTime |-> clock,
                     result |-> getTimeRemainingInClass(scheduleManager[1], today, clock)]
    /\ UNCHANGED <<scheduleManager, today, clock, timeVars, fmtVars, hostVars>>

QueryTimeUntilNextClass ==
    /\ scheduleManager # Null
    /\ lastQuery' = [op |-> "getTimeUntilNextClass", dateTime |-> clock,
                     result |-> getTimeUntilNextClass(scheduleManager[1], today, clock)]
    /\ UNCHANGED <<scheduleManager, today, clock, timeVars, fmtVars, hostVars>>

QueryMinutesUntilNextClass ==
    /\ scheduleManager # Null
    /\ lastQuery' = [op |-> "getMinutesUntilNextClass", dateTime |-> clock,
                     result |-> getMinutesUntilNextClass(scheduleManager[1], today, clock)]
    /\ UNCHANGED <<scheduleManager, today, clock, timeVars, fmtVars, hostVars>>

QueryDisplayTime ==
    /\ scheduleManager # Null
    /\ lastQuery' = [op |-> "getDisplayTime", dateTime |-> clock,
                     result |-> getDisplayTime(scheduleManager[1], today, clock)]
    /\ UNCHANGED <<scheduleManager, today, clock, timeVars, fmtVars, hostVars>>

(***************************************************************************)
(* Query probe: the queries on generated day lists.  A time text of the    *)
(* pool is listed in TimeTable with the minute of the day it denotes.      *)
(***************************************************************************)
T0900AM == <<"9", ":", "0", "0", " ", "A", "M">>
T1005AM == <<"1", "0", ":", "0", "5", " ", "A", "M">>
T1005 == <<"1", "0", ":", "0", "5">>
T1100 == <<"1", "1", ":", "0", "0">>
T0930 == <<"0", "9", ":", "3", "0">>
T1030 == <<"1", "0", ":", "3", "0">>
T0130PM == <<"1", ":", "3", "0", " ", "P", "M">>
T0215PM == <<"2", ":", "1", "5", " ", "p", "m">>
TBad9AM == <<"9", " ", "A", "M">>
TBad10PM == <<"1", "0", " ", "P", "M">>
TNoColon == <<"9", "0", "0">>

\* kind "ok": the text denotes the minute; "nan": it converts to NaN;
\* "bad": it breaks the 12-hour format contract
TimeTable ==
    { [text |-> T0900AM, kind |-> "ok", minutes |-> 540],
      [text |-> T1005AM, kind |-> "ok", minutes |-> 605],
      [text |-> T1005, kind |-> "ok", minutes |-> 605],
      [text |-> T1100, kind |-> "ok", minutes |-> 660],
      [text |-> T0930, kind |-> "ok", minutes |-> 570],
      [text |-> T1030, kind |-> "ok", minutes |-> 630],
      [text |-> T0130PM, kind |-> "ok", minutes |-> 810],
      [text |-> T0215PM, kind |-> "ok", minutes |-> 855],
      [text |-> TBad9AM, kind |-> "bad", minutes |-> 0],
      [text |-> TBad10PM, kind |-> "bad", minutes |-> 0],
      [text |-> TNoColon, kind |-> "nan", minutes |-> 0] }

TimeEntry(text) == CHOOSE e \in TimeTable : e.text = text

Block(name, start, end) ==
    [blockName |-> name, description |-> <<>>, startTime |-> start, endTime |-> end]

BlockA1 == Block(<<"A", "1">>, T0900AM, T1005AM)
BlockB2 == Block(<<"B", "2">>, T1005, T1100)
BlockC3 == Block(<<"C", "3">>, T0930, T1030)
BlockD4 == Block(<<"D", "4">>, T0130PM, T0215PM)
BlockE5 == Block(<<"E", "5">>, T1100, T1005)
BlockF6 == Block(<<"F", "6">>, TBad9AM, T1005)
BlockG7 == Block(<<"G", "7">>, TNoColon, T1005)
BlockH8 == Block(<<"H", "8">>, T1005, TBad10PM)

BlockPool == {BlockA1, BlockB2, BlockC3, BlockD4, BlockE5, BlockF6, BlockG7, BlockH8}

\* the lists of at most MaxBlocks different blocks
DayLists ==
    UNION {{l \in [1..n -> BlockPool] : \A i, j \in 1..n : l[i] = l[j] => i = j} :
               n \in 0..MaxBlocks}

Smiley == <<":", ")">>

ProbeEngines ==
    {[schedule |-> [kind |-> "map", days |-> [d \in {"Monday"} |-> l]],
      config |-> [kind |-> "map", countdownThreshold |-> th, noClassText |-> Smiley]] :
        l \in DayLists, th \in {10, 30}}

ProbeMinutes == {495, 510, 511, 530, 539, 540, 570, 600, 604, 605, 630, 660, 765, 810}

ProbeMoments ==
    {[hours |-> m \div 60, minutes |-> m % 60, seconds |-> x] :
        m \in ProbeMinutes, x \in {0, 59}}

QueryInit ==
    /\ scheduleManager \in {Some(en) : en \in ProbeEngines}
    /\ today \in {"Monday", "Tuesday"}
    /\ clock \in ProbeMoments
    /\ lastQuery = NoQuery
    /\ TimeIdle
    /\ FmtIdle
    /\ HostIdle

QueryNext ==
    \/ QueryCurrentClass
    \/ QueryNextClass
    \/ QueryTimeRemainingInClass
    \/ QueryTimeUntilNextClass
    \/ QueryMinutesUntilNextClass
    \/ QueryDisplayTime

SpecQuery == QueryInit /\ [][QueryNext]_vars

(***************************************************************************)
(* Claims about the queries, stated on the minutes TimeTable gives.        *)
(***************************************************************************)
\* today's ordered list of the loaded document (empty when the day is absent)
TodaysList ==
    IF scheduleManager = Null THEN <<>>
    ELSE IF today \in DOMAIN scheduleManager[1].schedule.days
    THEN scheduleManager[1].schedule.days[today]
    ELSE <<>>

StartOf(b) == TimeEntry(b.startTime)
EndOf(b) == TimeEntry(b.endTime)

\* b.start <= m < b.end
IsCurrentAt(b, m) ==
    /\ StartOf(b).kind = "ok" /\ EndOf(b).kind = "ok"
    /\ StartOf(b).minutes <= m /\ m < EndOf(b).minutes

\* b.start > m
StartsAfter(b, m) == StartOf(b).kind = "ok" /\ StartOf(b).minutes > m

\* no block among the first n of the list has a time text that fails to parse
NoBadTimes(list, n) ==
    \A i \in 1..n : StartOf(list[i]).kind # "bad" /\ EndOf(list[i]).kind # "bad"

NoBadStarts(list, n) == \A i \in 1..n : StartOf(list[i]).kind # "bad"

\* the index of the first current block at minute m, or 0
FirstCurrent(list, m) ==
    IF \E i \in 1..Len(list) : IsCurrentAt(list[i], m)
    THEN CHOOSE i \in 1..Len(list) :
             IsCurrentAt(list[i], m) /\ \A j \in 1..(i - 1) : ~IsCurrentAt(list[j], m)
    ELSE 0

\* the index of the first block starting after minute m, or 0
FirstAfter(list, m) ==
    IF \E i \in 1..Len(list) : StartsAfter(list[i], m)
    THEN CHOOSE i \in 1..Len(list) :
             StartsAfter(list[i], m) /\ \A j \in 1..(i - 1) : ~StartsAfter(list[j], m)
    ELSE 0

MinuteOf(dateTime) == dateTime.hours * 60 + dateTime.minutes
SecondOf(dateTime) == MinuteOf(dateTime) * 60 + dateTime.seconds

\* C1: getCurrentClass(m) returns block b of today's list exactly when
\* b.start <= m < b.end and no earlier block of the list satisfies that, and
\* none exactly when no block does (so b is current at m = b.start and no
\* longer at m = b.end); the call returns whenever every time text parses.
C1_CurrentIsFirstMatch ==
    lastQuery.op = "getCurrentClass" =>
        LET list == TodaysList
            m == MinuteOf(lastQuery.dateTime)
            r == lastQuery.result
        IN  /\ NoBadTimes(list, Len(list)) => r.ok
            /\ r.ok =>
                  /\ \A i \in 1..Len(list) :
                        (r.val = Some(list[i])) <=>
                            (IsCurrentAt(list[i], m)
                                /\ \A j \in 1..(i - 1) : ~IsCurrentAt(list[j], m))
                  /\ (r.val = Null) <=> (\A i \in 1..Len(list) : ~IsCurrentAt(list[i], m))

\* C1 witness: at 10:05, with A1 (9:00 AM-10:05 AM) listed before B2
\* (10:05-11:00), the current block is B2: A1 has ended, B2 has started
C1_Witness ==
    /\ lastQuery.op = "getCurrentClass"
    /\ TodaysList = <<BlockA1, BlockB2>>
    /\ MinuteOf(lastQuery.dateTime) = 605
    /\ lastQuery.result = Ok(Some(BlockB2))

\* C2: getNextClass(m) returns the first block in list order whose start is
\* strictly after m, and none when there is no such block, whatever the
\* chronological order of the list.
C2_NextIsFirstLaterStart ==
    lastQuery.op = "getNextClass" =>
        LET list == TodaysList
            m == MinuteOf(lastQuery.dateTime)
            r == lastQuery.result
        IN  /\ NoBadStarts(list, Len(list)) => r.ok
            /\ r.ok =>
                  /\ \A i \in 1..Len(list) :
                        (r.val = Some(list[i])) <=>
                            (StartsAfter(list[i], m)
                                /\ \A j \in 1..(i - 1) : ~StartsAfter(list[j], m))
                  /\ (r.val = Null) <=> (\A i \in 1..Len(list) : ~StartsAfter(list[i], m))

\* C2 witness: at 8:15, with D4 (1:30 PM) listed before A1 (9:00 AM), the
\* next block is D4, the first listed, not the nearest
C2_Witness ==
    /\ lastQuery.op = "getNextClass"
    /\ TodaysList = <<BlockD4, BlockA1>>
    /\ MinuteOf(lastQuery.dateTime) = 495
    /\ lastQuery.result = Ok(Some(BlockD4))

\* a block starting exactly at the queried minute is not the next one
C2_StartNotNextWitness ==
    /\ lastQuery.op = "getNextClass"
    /\ TodaysList = <<BlockA1, BlockD4>>
    /\ MinuteOf(lastQuery.dateTime) = 540
    /\ lastQuery.result = Ok(Some(BlockD4))

HasPrefix(str, prefix) ==
    Len(str) >= Len(prefix) /\ SubSeq(str, 1, Len(prefix)) = prefix

AfterPrefix(str, prefix) == SubSeq(str, Len(prefix) + 1, Len(str))

\* C3: whenever a current block exists (and the time texts before it parse)
\* getDisplayTime returns "Done In: " followed by the countdown of the
\* seconds from the moment, seconds included, to the current block's end,
\* whether or not a next block exists or is near.
C3_DoneInWhileCurrent ==
    lastQuery.op = "getDisplayTime" =>
        LET list == TodaysList
            i == FirstCurrent(list, MinuteOf(lastQuery.dateTime))
            r == lastQuery.result
        IN  (i # 0 /\ NoBadTimes(list, i)) =>
                /\ r.ok
                /\ HasPrefix(r.val, <<"D", "o", "n", "e", " ", "I", "n", ":", " ">>)
                /\ IsCountdownOf(AfterPrefix(r.val, <<"D", "o", "n", "e", " ", "I", "n", ":", " ">>),
                                 EndOf(list[i]).minutes * 60 - SecondOf(lastQuery.dateTime))

\* C3 witness: at 10:00:59 inside A1 (ends 10:05 AM), with B2 starting in 5
\* minutes and a threshold of 30, the display is "Done In: 4:01"
C3_Witness ==
    /\ lastQuery.op = "getDisplayTime"
    /\ TodaysList = <<BlockA1, BlockB2>>
    /\ scheduleManager[1].config.countdownThreshold = 30
    /\ lastQuery.dateTime = [hours |-> 10, minutes |-> 0, seconds |-> 59]
    /\ lastQuery.result = Ok(<<"D", "o", "n", "e", " ", "I", "n", ":", " ", "4", ":", "0", "1">>)

\* C4: when no current block exists, getDisplayTime returns "Next In: " plus
\* the countdown to the next block's start exactly when a next block exists
\* and its start is at most countdownThreshold minutes away (inclusive), and
\* config.noClassText in every other case; with threshold 30 a block 45
\* minutes away gives noClassText and one 10 minutes away gives
\* "Next In: 10:00".
C4_NextInWithinThreshold ==
    lastQuery.op = "getDisplayTime" =>
        LET list == TodaysList
            m == MinuteOf(lastQuery.dateTime)
            n == FirstAfter(list, m)
            r == lastQuery.result
            config == scheduleManager[1].config
            nextIn == <<"N", "e", "x", "t", " ", "I", "n", ":", " ">>
        IN  /\ (FirstCurrent(list, m) = 0 /\ NoBadTimes(list, Len(list))) =>
                  /\ r.ok
                  /\ IF n # 0 /\ StartOf(list[n]).minutes - m <= config.countdownThreshold
                     THEN /\ HasPrefix(r.val, nextIn)
                          /\ IsCountdownOf(AfterPrefix(r.val, nextIn),
                                 StartOf(list[n]).minutes * 60 - SecondOf(lastQuery.dateTime))
                     ELSE r.val = config.noClassText /\ ~HasPrefix(r.val, nextIn)
            /\ (list = <<BlockA1>> /\ config.countdownThreshold = 30 /\ m = 540 - 45)
                  => r = Ok(config.noClassText)
            /\ (list = <<BlockA1>> /\ config.countdownThreshold = 30
                    /\ lastQuery.dateTime = [hours |-> 8, minutes |-> 50, seconds |-> 0])
                  => r = Ok(<<"N", "e", "x", "t", " ", "I", "n", ":", " ", "1", "0", ":", "0", "0">>)

\* C4 witness: exactly 30 minutes before A1 with a threshold of 30 the
\* countdown is shown
C4_Witness ==
    /\ lastQuery.op = "getDisplayTime"
    /\ TodaysList = <<BlockA1>>
    /\ scheduleManager[1].config.countdownThreshold = 30
    /\ lastQuery.dateTime = [hours |-> 8, minutes |-> 30, seconds |-> 0]
    /\ lastQuery.result = Ok(<<"N", "e", "x", "t", " ", "I", "n", ":", " ", "3", "0", ":", "0", "0">>)

(***************************************************************************)
(* ScheduleFileManager: the schedule folder.  A file is [name, mtime,      *)
(* content]; the folder lists its files in readdir order.  A file's        *)
(* content is the name of a document text.                                 *)
(***************************************************************************)
\* String.prototype.endsWith
endsWith(s, suffix) ==
    /\ Len(suffix) <= Len(s)
    /\ SubSeq(s, Len(s) - Len(suffix) + 1, Len(s)) = suffix

\* String.prototype.includes
includes(s, sub) ==
    \E i \in 1..(Len(s) - Len(sub) + 1) : SubSeq(s, i, i + Len(sub) - 1) = sub

IsYamlName(file) ==
    \/ endsWith(file, <<".", "y", "a", "m", "l">>)
    \/ endsWith(file, <<".", "y", "m", "l">>)

IsSuspicious(file) ==
    \/ includes(file, <<".", ".">>)
    \/ includes(file, <<"/">>)
    \/ includes(file, <<"\\">>)

\* the loop of getMostRecentScheduleFile from index i on: the index of the
\* chosen file, 0 for null
RECURSIVE MostRecentFrom(_, _, _, _)
MostRecentFrom(files, i, mostRecentFile, mostRecentTime) ==
    IF i > Len(files) THEN mostRecentFile
    ELSE IF ~IsYamlName(files[i].name) \/ IsSuspicious(files[i].name)
    THEN MostRecentFrom(files, i + 1, mostRecentFile, mostRecentTime)
    ELSE IF files[i].mtime > mostRecentTime
    THEN MostRecentFrom(files, i + 1, i, files[i].mtime)
    ELSE MostRecentFrom(files, i + 1, mostRecentFile, mostRecentTime)

\* the first yaml / yml file of the listing, whatever its modification time
getMostRecentScheduleFile_FirstListed(files) ==
    IF \E i \in 1..Len(files) : IsYamlName(files[i].name) /\ ~IsSuspicious(files[i].name)
    THEN CHOOSE i \in 1..Len(files) :
             /\ IsYamlName(files[i].name) /\ ~IsSuspicious(files[i].name)
             /\ \A j \in 1..(i - 1) :
                    ~IsYamlName(files[j].name) \/ IsSuspicious(files[j].name)
    ELSE 0

getMostRecentScheduleFile(files) == MostRecentFrom(files, 1, 0, 0)

hasScheduleFile(files) == getMostRecentScheduleFile(files) # 0

(***************************************************************************)
(* ScheduleManager: loading.  A parsed YAML value is a mapping ("map"), a  *)
(* sequence ("seq"), a scalar, null, or absent (undefined).                *)
(***************************************************************************)
NoDays == [d \in {} |-> <<>>]

ScheduleValue(kind, days) == [kind |-> kind, days |-> days]

\* a config value: each setting is Null (missing) or Some(value)
ConfigValue(kind, countdownThreshold, noClassText) ==
    [kind |-> kind, countdownThreshold |-> countdownThreshold,
     noClassText |-> noClassText]

Document(kind, schedule, config) ==
    [kind |-> kind, schedule |-> schedule, config |-> config]

AbsentSchedule == ScheduleValue("absent", NoDays)
AbsentConfig == ConfigValue("absent", Null, Null)
EmptyConfig == ConfigValue("map", Null, Null)

Free == <<"F", "r", "e", "e">>

OnMonday(list) == ScheduleValue("map", [d \in {"Monday"} |-> list])

\* YAML.parse(fs.readFileSync(file)) on the document texts of the model:
\*   V1              config: {countdownThreshold: 10, noClassText: Free}
\*                   schedule: {Monday: [A1, B2]}
\*   V2              config: {}            schedule: {Monday: [C3]}
\*   Empty           (an empty file)
\*   TopSeq          - a
\*   ScalarSchedule  schedule: 5           config: {}
\*   SeqSchedule     schedule: [a]         config: {}
\*   NoConfig        schedule: {Monday: [A1]}
\*   SeqConfig       schedule: {Monday: [A1]}     config: []
\*   BadTime         schedule: {Monday: [F6]}     config: {}
\*   Syntax          schedule: {Monday: [
YAMLparse(content) ==
    CASE content = "V1" ->
           Ok(Document("map", OnMonday(<<BlockA1, BlockB2>>),
                       ConfigValue("map", Some(10), Some(Free))))
      [] content = "V2" ->
           Ok(Document("map", OnMonday(<<BlockC3>>), EmptyConfig))
      [] content = "Empty" ->
           Ok(Document("null", AbsentSchedule, AbsentConfig))
      [] content = "TopSeq" ->
           Ok(Document("seq", AbsentSchedule, AbsentConfig))
      [] content = "ScalarSchedule" ->
           Ok(Document("map", ScheduleValue("scalar", NoDays), EmptyConfig))
      [] content = "SeqSchedule" ->
           Ok(Document("map", ScheduleValue("seq", NoDays), EmptyConfig))
      [] content = "NoConfig" ->
           Ok(Document("map", OnMonday(<<BlockA1>>), AbsentConfig))
      [] content = "SeqConfig" ->
           Ok(Document("map", OnMonday(<<BlockA1>>), ConfigValue("seq", Null, Null)))
      [] content = "BadTime" ->
           Ok(Document("map", OnMonday(<<BlockF6>>), EmptyConfig))
      [] OTHER -> Threw("YAMLParseError")

\* x && typeof x === 'object': JavaScript arrays are objects
IsObject(value) == value.kind \in {"map", "seq"}

DefaultCountdownThreshold == 30
DefaultNoClassText == Smiley

\* the defaults with an empty text in place of ':)'
WithDefaults_EmptyText(config) ==
    [kind |-> config.kind,
     countdownThreshold |-> IF config.countdownThreshold = Null
                            THEN DefaultCountdownThreshold
                            ELSE config.countdownThreshold[1],
     noClassText |-> IF config.noClassText = Null THEN <<>> ELSE config.noClassText[1]]

\* this.config.countdownThreshold ??= 30; this.config.noClassText ??= ':)'
WithDefaults(config) ==
    [kind |-> config.kind,
     countdownThreshold |-> IF config.countdownThreshold = Null
                            THEN DefaultCountdownThreshold
                            ELSE config.countdownThreshold[1],
     noClassText |-> IF config.noClassText = Null
                     THEN DefaultNoClassText
                     ELSE config.noClassText[1]]

NoFileMessage == "Failed to load schedule: No schedule file found in user folder"

\* the test taking every failure for the missing file
MentionsNoFile_AnyFailure(message) == message # ""

\* error.message.includes('No schedule file found'), on the messages above
MentionsNoFile(message) == message = NoFileMessage

\* the outcome of loadSchedule: the text it read, and the engine's fields
\* when it returned
LoadFailed(source, message) ==
    [ok |-> FALSE, source |-> source, err |-> message, engine |-> Null]

Loaded(source, data) ==
    [ok |-> TRUE, source |-> source, err |-> "",
     engine |-> Some([schedule |-> data.schedule, config |-> WithDefaults(data.config)])]

Validate(source, data) ==
    IF ~IsObject(data)
    THEN LoadFailed(source, "Failed to load schedule: Invalid schedule format: expected object")
    ELSE IF ~IsObject(data.schedule)
    THEN LoadFailed(source,
             "Failed to load schedule: Invalid schedule format: missing or invalid schedule property")
    ELSE IF ~IsObject(data.config)
    THEN LoadFailed(source,
             "Failed to load schedule: Invalid schedule format: missing or invalid config property")
    ELSE Loaded(source, data)

LoadParsed(source, parsed) ==
    IF ~parsed.ok THEN LoadFailed(source, "Failed to load schedule: YAMLParseError")
    ELSE Validate(source, parsed.val)

LoadFile(files, userScheduleFile) ==
    IF userScheduleFile = 0 THEN LoadFailed("none", NoFileMessage)
    ELSE LoadParsed(files[userScheduleFile].content,
                    YAMLparse(files[userScheduleFile].content))

loadSchedule(files) == LoadFile(files, getMostRecentScheduleFile(files))

\* a failed load clearing the engine there was
Installed_ClearedOnFailure(self, load) == IF load.ok THEN load.engine ELSE Null

\* a load replacing the schedule and leaving the config of the load before
Installed_ConfigKept(self, load) ==
    IF ~load.ok THEN self
    ELSE IF self = Null THEN load.engine
    ELSE Some([schedule |-> load.engine[1].schedule, config |-> self[1].config])

\* the engine a load leaves: the assignments come after the last throw, and
\* a constructor that throws assigns nothing to scheduleManager
Installed(self, load) == IF load.ok THEN load.engine ELSE self

(***************************************************************************)
(* The host: app lifecycle, the watcher callbacks and the display tick,    *)
(* with the schedule folder changing under it.                             *)
(***************************************************************************)
probeVars == <<timeVars, fmtVars, today, clock, lastQuery, watchVars, candidate, tmpl>>

NameA == <<"a", ".", "y", "a", "m", "l">>
NameB == <<"b", ".", "y", "m", "l">>
NameT == <<"n", ".", "t", "x", "t">>

FileNames == {NameA, NameB, NameT}

Contents ==
    {"V1", "V2", "Empty", "TopSeq", "ScalarSchedule", "SeqSchedule", "NoConfig",
     "SeqConfig", "BadTime", "Syntax"}

\* the texts written to a file: the text of a file that is not a yaml / yml
\* file is never read, so one text stands for all
WrittenTo(name) == IF IsYamlName(name) THEN Contents ELSE {"V1"}

\* the index of the file called name, 0 when there is none
IndexOf(files, name) ==
    IF \E i \in 1..Len(files) : files[i].name = name
    THEN CHOOSE i \in 1..Len(files) : files[i].name = name
    ELSE 0

InsertAt(files, p, file) ==
    SubSeq(files, 1, p - 1) \o <<file>> \o SubSeq(files, p, Len(files))

RemoveAt(files, i) == SubSeq(files, 1, i - 1) \o SubSeq(files, i + 1, Len(files))

DebounceMs == 300

\* the file manager's fields, with the timeouts its handle may name
FileManager ==
    [fileWatcher |-> fileWatcher, changeCallback |-> changeCallback,
     debounceTimer |-> debounceTimer, timers |-> timers]

SetFileManager(fm) ==
    /\ fileWatcher' = fm.fileWatcher
    /\ changeCallback' = fm.changeCallback
    /\ debounceTimer' = fm.debounceTimer
    /\ timers' = fm.timers

\* the timeout set last: the one this.debounceTimer names
LatestTimer(ts) == CHOOSE t \in ts : \A u \in ts : u.set <= t.set

\* clearTimeout(this.debounceTimer) without effect
clearTimeout_NoEffect(ts, handle) == ts

\* clearTimeout(this.debounceTimer): a null or expired handle clears nothing
clearTimeout(ts, handle) ==
    IF handle = "pending" /\ ts # {} THEN ts \ {LatestTimer(ts)} ELSE ts

\* setTimeout(callback, 300)
setTimeout(ts, at) == ts \cup {[set |-> at, left |-> DebounceMs]}

\* the file name of a watch event names a yaml / yml file
Qualifies(filename) == filename # Null /\ IsYamlName(filename[1])

\* the listener with the extension test the other way round
Listener_RestartsOnOthers(fm, filename, at) ==
    IF Qualifies(filename)
    THEN fm
    ELSE [fm EXCEPT !.debounceTimer = "pending",
                    !.timers = setTimeout(clearTimeout(fm.timers, fm.debounceTimer), at)]

\* the fs.watch listener: a yaml / yml filename restarts the debounce timer
Listener(fm, filename, at) ==
    IF Qualifies(filename)
    THEN [fm EXCEPT !.debounceTimer = "pending",
                    !.timers = setTimeout(clearTimeout(fm.timers, fm.debounceTimer), at)]
    ELSE fm

\* watchScheduleFolder(callback): fs.watch returns a watcher or throws, and the
\* exception is caught with this.fileWatcher left as it was
watchScheduleFolder(fm, callback, watchOk) ==
    [fm EXCEPT !.changeCallback = callback,
               !.fileWatcher = IF watchOk THEN TRUE ELSE @]

\* stopWatchingScheduleFolder with the timeout left to run
stopWatchingScheduleFolder_TimerKept(fm) == [fm EXCEPT !.fileWatcher = FALSE]

\* stopWatchingScheduleFolder
stopWatchingScheduleFolder(fm) ==
    [fileWatcher |-> FALSE,
     changeCallback |-> "null",
     debounceTimer |-> "null",
     timers |-> clearTimeout(fm.timers, fm.debounceTimer)]

\* the second statement of the error handler: watchScheduleFolder(this.changeCallback)
RestartWatcher(stopped, watchOk) ==
    watchScheduleFolder(stopped, stopped.changeCallback, watchOk)

\* the watcher's error handler
OnWatcherError(fm, watchOk) == RestartWatcher(stopWatchingScheduleFolder(fm), watchOk)

\* a timeout runs: its handle stays in this.debounceTimer
TimerRuns(fm, t) ==
    [fm EXCEPT !.timers = @ \ {t},
               !.debounceTimer = IF t = LatestTimer(fm.timers) THEN "expired" ELSE @]

\* the callbacks that throw when they are called
Throws(callback) == callback = "throws"

\* a catch that gives the watcher up when the callback threw
CallbackCaught_StopsWatching(fm, threw) ==
    IF threw THEN stopWatchingScheduleFolder(fm) ELSE fm

\* try { if (this.changeCallback) this.changeCallback() } catch (error) {
\* console.error(...) }: the file manager after the body of the timeout
CallbackCaught(fm, threw) == fm

OnWatchEvent(filename) == SetFileManager(Listener(FileManager, filename, now))

\* the folder changes; an open watcher is told the file's name
FolderChanged(name) ==
    IF fileWatcher
    THEN OnWatchEvent(Some(name))
    ELSE UNCHANGED <<fileWatcher, changeCallback, debounceTimer, timers>>

\* a file is written over: it keeps its place in the listing
OverwriteFile ==
    \E i \in 1..Len(folder), mtime \in 1..MaxMtime, content \in Contents :
        /\ appPhase # "quit"
        /\ content \in WrittenTo(folder[i].name)
        /\ folder' = [folder EXCEPT ![i] = [name |-> folder[i].name, mtime |-> mtime,
                                            content |-> content]]
        /\ FolderChanged(folder[i].name)
        /\ UNCHANGED <<scheduleManager, appPhase, tray, updateInterval, intervals, setupDialog,
                       lastLoad, uncaught, probeVars>>

\* a new file appears somewhere in the listing
CreateFile ==
    \E name \in FileNames, mtime \in 1..MaxMtime, content \in Contents,
       p \in 1..(Len(folder) + 1) :
        /\ appPhase # "quit"
        /\ Len(folder) < MaxFiles
        /\ IndexOf(folder, name) = 0
        /\ content \in WrittenTo(name)
        /\ folder' = InsertAt(folder, p, [name |-> name, mtime |-> mtime,
                                          content |-> content])
        /\ FolderChanged(name)
        /\ UNCHANGED <<scheduleManager, appPhase, tray, updateInterval, intervals, setupDialog,
                       lastLoad, uncaught, probeVars>>

DeleteFile ==
    \E i \in 1..Len(folder) :
        /\ appPhase # "quit"
        /\ folder' = RemoveAt(folder, i)
        /\ FolderChanged(folder[i].name)
        /\ UNCHANGED <<scheduleManager, appPhase, tray, updateInterval, intervals, setupDialog,
                       lastLoad, uncaught, probeVars>>

\* a further event of the watcher, for a file name or without one
FsEvent ==
    \E filename \in {Null} \cup {Some(name) : name \in FileNames} :
        /\ fileWatcher
        /\ OnWatchEvent(filename)
        /\ UNCHANGED <<scheduleManager, folder, appPhase, tray, updateInterval, intervals,
                       setupDialog, lastLoad, uncaught, probeVars>>

\* tray.setTitle(displayTime)
TitleSet(displayTime) ==
    IF ~displayTime.ok THEN displayTime ELSE Ok(Some(displayTime.val))

\* updateTrayDisplay: the tray afterwards, or the exception of getDisplayTime
updateTrayDisplay(theTray, manager) ==
    IF theTray = Null \/ manager = Null THEN Ok(theTray)
    ELSE TitleSet(getDisplayTime(manager[1], today, clock))

\* the time conversions of renderDescriptionTemplate, which throw what
\* normalizeTo24Hour throws
TemplateTimesOf(startMinutes, endMinutes) ==
    IF ~startMinutes.ok THEN Threw(startMinutes.err)
    ELSE IF ~endMinutes.ok THEN Threw(endMinutes.err)
    ELSE Ok(<<>>)

TemplateTimes(classObj) ==
    TemplateTimesOf(timeToMinutes(classObj.startTime), timeToMinutes(classObj.endTime))

\* the details of a found block, once its description is rendered
DetailsRendered(classObj, rendered) ==
    IF ~rendered.ok THEN rendered ELSE Ok(Some(classObj))

DetailsOf(found) ==
    IF ~found.ok THEN found
    ELSE IF found.val = Null THEN Ok(Null)
    ELSE DetailsRendered(found.val[1], TemplateTimes(found.val[1]))

\* getCurrentClassDetails / getNextClassDetails: the block found, null, or
\* the exception of a time conversion
getCurrentClassDetails(engine, dayName, dateTime) ==
    DetailsOf(getCurrentClass(engine, dayName, dateTime))

getNextClassDetails(engine, dayName, dateTime) ==
    DetailsOf(getNextClass(engine, dayName, dateTime))

\* minutes from the end of the found current block to the start of the found
\* next block, null when either is missing
MinutesFromEndToNext(currentClass, nextClass) ==
    IF ~currentClass.ok THEN currentClass
    ELSE IF currentClass.val = Null THEN Ok(Null)
    ELSE IF ~nextClass.ok THEN nextClass
    ELSE IF nextClass.val = Null THEN Ok(Null)
    ELSE Ok(Some(timeToMinutes(nextClass.val[1].startTime).val.v
                     - timeToMinutes(currentClass.val[1].endTime).val.v))

getMinutesFromEndOfCurrentClassToNextClass(engine, dayName, dateTime) ==
    MinutesFromEndToNext(getCurrentClass(engine, dayName, dateTime),
                         getNextClass(engine, dayName, dateTime))

\* the menu built while no block is current
NextUpMenu(nextClassDetails) ==
    IF ~nextClassDetails.ok THEN Threw(nextClassDetails.err)
    ELSE IF nextClassDetails.val # Null THEN Ok("nextUp")
    ELSE Ok("noClass")

\* the "On Deck" submenu of the menu built while a block is current
OnDeckSubmenu(nextClassDetails) ==
    IF ~nextClassDetails.ok THEN Threw(nextClassDetails.err)
    ELSE IF nextClassDetails.val # Null THEN Ok("currentOnDeck")
    ELSE Ok("current")

\* the threshold test with < in place of <=
OnDeckMenu_StrictThreshold(engine, minutesUntilNextFromEndOfClass) ==
    IF ~minutesUntilNextFromEndOfClass.ok THEN Threw(minutesUntilNextFromEndOfClass.err)
    ELSE IF minutesUntilNextFromEndOfClass.val # Null
            /\ minutesUntilNextFromEndOfClass.val[1] < engine.config.countdownThreshold
    THEN OnDeckSubmenu(getNextClassDetails(engine, today, clock))
    ELSE Ok("current")

OnDeckMenu(engine, minutesUntilNextFromEndOfClass) ==
    IF ~minutesUntilNextFromEndOfClass.ok THEN Threw(minutesUntilNextFromEndOfClass.err)
    ELSE IF minutesUntilNextFromEndOfClass.val # Null
            /\ minutesUntilNextFromEndOfClass.val[1] <= engine.config.countdownThreshold
    THEN OnDeckSubmenu(getNextClassDetails(engine, today, clock))
    ELSE Ok("current")

MenuFromCurrent(engine, classDetails) ==
    IF ~classDetails.ok THEN Threw(classDetails.err)
    ELSE IF classDetails.val # Null
    THEN OnDeckMenu(engine, getMinutesFromEndOfCurrentClassToNextClass(engine, today, clock))
    ELSE NextUpMenu(getNextClassDetails(engine, today, clock))

NullManagerError == "TypeError: Cannot read properties of null"

\* createContextMenu: the kind of menu built, or the exception that leaves
\* it; scheduleManager is dereferenced without a test
createContextMenu(manager) ==
    IF manager = Null THEN Threw(NullManagerError)
    ELSE MenuFromCurrent(manager[1], getCurrentClassDetails(manager[1], today, clock))

\* clearInterval(updateInterval) without effect
clearInterval_NoEffect(running, handle) == running

\* if (updateInterval) clearInterval(updateInterval)
clearInterval(running, handle) == IF handle /\ running > 0 THEN running - 1 ELSE running

\* setInterval(updateTrayDisplay, 1000)
setInterval(running) == running + 1

\* if (updateInterval) clearInterval(updateInterval);
\* updateInterval = setInterval(updateTrayDisplay, 1000)
StartInterval(running, handle) == setInterval(clearInterval(running, handle))

LoadRecord(op, load) == [op |-> op, source |-> load.source, err |-> load.err]

\* initializeSchedule with a schedule file present; tray is still null, so
\* the initial updateTrayDisplay returns at once
InitializeWith(load, watchOk) ==
    /\ lastLoad' = LoadRecord("construct", load)
    /\ scheduleManager' = Installed(scheduleManager, load)
    /\ SetFileManager(IF load.ok
                      THEN watchScheduleFolder(FileManager, "reload", watchOk)
                      ELSE FileManager)
    /\ updateInterval' = load.ok
    /\ intervals' = IF load.ok THEN StartInterval(intervals, updateInterval) ELSE intervals
    /\ setupDialog' = setupDialog

\* app.whenReady: the file manager, initializeSchedule, createTray
WhenReady ==
    \E watchOk \in BOOLEAN :
        /\ appPhase = "launching"
        /\ appPhase' = "running"
        /\ IF hasScheduleFile(folder)
           THEN InitializeWith(loadSchedule(folder), watchOk)
           ELSE /\ SetFileManager(watchScheduleFolder(FileManager, "firstRun", watchOk))
                /\ setupDialog' = TRUE
                /\ UNCHANGED <<scheduleManager, updateInterval, intervals, lastLoad>>
        /\ tray' = Some(<<>>)
        /\ UNCHANGED <<folder, uncaught, probeVars>>

\* the first-run callback after new ScheduleManager() returned
FirstRunRender(update) ==
    IF update.ok
    THEN /\ tray' = update.val
         /\ updateInterval' = TRUE
         /\ intervals' = StartInterval(intervals, updateInterval)
    ELSE UNCHANGED <<tray, updateInterval, intervals>>

FirstRunLoad(load) ==
    /\ lastLoad' = LoadRecord("construct", load)
    /\ scheduleManager' = Installed(scheduleManager, load)
    /\ IF load.ok
       THEN FirstRunRender(updateTrayDisplay(tray, load.engine))
       ELSE UNCHANGED <<tray, updateInterval, intervals>>

\* the debounce timer fires with the first-run callback
FireFirstRun ==
    \E t \in timers :
        /\ changeCallback = "firstRun"
        /\ SetFileManager(TimerRuns(FileManager, t))
        /\ IF hasScheduleFile(folder)
           THEN FirstRunLoad(loadSchedule(folder))
           ELSE UNCHANGED <<scheduleManager, tray, updateInterval, intervals, lastLoad>>
        /\ UNCHANGED <<folder, appPhase, setupDialog, uncaught, probeVars>>

\* the reload callback after reloadSchedule() returned
ReloadRender(update) == tray' = IF update.ok THEN update.val ELSE tray

\* the reload callback calling updateTrayDisplay after a reload that threw
ReloadLoad_RendersOnFailure(load) ==
    /\ lastLoad' = LoadRecord("reload", load)
    /\ scheduleManager' = Installed(scheduleManager, load)
    /\ ReloadRender(updateTrayDisplay(tray, Installed(scheduleManager, load)))
    /\ setupDialog' = (setupDialog \/ (~load.ok /\ MentionsNoFile(load.err)))

ReloadLoad(load) ==
    /\ lastLoad' = LoadRecord("reload", load)
    /\ scheduleManager' = Installed(scheduleManager, load)
    /\ IF load.ok
       THEN ReloadRender(updateTrayDisplay(tray, load.engine)) /\ setupDialog' = setupDialog
       ELSE /\ tray' = tray
            /\ setupDialog' = (setupDialog \/ MentionsNoFile(load.err))

\* the debounce timer fires with the reload callback
FireReload ==
    \E t \in timers :
        /\ changeCallback = "reload"
        /\ SetFileManager(TimerRuns(FileManager, t))
        /\ ReloadLoad(loadSchedule(folder))
        /\ UNCHANGED <<folder, appPhase, updateInterval, intervals, uncaught, probeVars>>

\* the debounce timer fires when the callback is null
FireNoCallback ==
    \E t \in timers :
        /\ changeCallback = "null"
        /\ SetFileManager(TimerRuns(FileManager, t))
        /\ UNCHANGED <<scheduleManager, folder, appPhase, tray, updateInterval, intervals,
                       setupDialog, lastLoad, uncaught, probeVars>>

\* the one-second interval: an exception of getDisplayTime leaves the title
TickRender(update) ==
    /\ tray' = IF update.ok THEN update.val ELSE tray
    /\ uncaught' = IF update.ok THEN uncaught ELSE [op |-> "tick", err |-> update.err]

Tick ==
    /\ intervals > 0
    /\ TickRender(updateTrayDisplay(tray, scheduleManager))
    /\ UNCHANGED <<scheduleManager, folder, appPhase, fileWatcher, changeCallback,
                   debounceTimer, timers, updateInterval, intervals, setupDialog, lastLoad,
                   probeVars>>

\* the tray is clicked: tray.popUpContextMenu(createContextMenu())
ClickPopup(menu) ==
    uncaught' = IF menu.ok THEN uncaught ELSE [op |-> "click", err |-> menu.err]

TrayClick ==
    /\ tray # Null
    /\ ClickPopup(createContextMenu(scheduleManager))
    /\ UNCHANGED <<scheduleManager, folder, appPhase, fileWatcher, changeCallback,
                   debounceTimer, timers, tray, updateInterval, intervals, setupDialog, lastLoad,
                   probeVars>>

\* the watcher's error handler: stopWatchingScheduleFolder, then
\* watchScheduleFolder(this.changeCallback) with the callback already null
WatcherError ==
    \E watchOk \in BOOLEAN :
    /\ fileWatcher
    /\ SetFileManager(OnWatcherError(FileManager, watchOk))
    /\ UNCHANGED <<scheduleManager, folder, appPhase, tray, updateInterval, intervals, setupDialog,
                   lastLoad, uncaught, probeVars>>

\* the setup dialog is dismissed and the folder opened
DismissSetupDialog ==
    /\ setupDialog
    /\ appPhase = "running"
    /\ setupDialog' = FALSE
    /\ UNCHANGED <<scheduleManager, folder, appPhase, fileWatcher, changeCallback,
                   debounceTimer, timers, tray, updateInterval, intervals, lastLoad, uncaught,
                   probeVars>>

\* before-quit
BeforeQuit ==
    /\ appPhase = "running"
    /\ appPhase' = "quit"
    /\ SetFileManager(stopWatchingScheduleFolder(FileManager))
    /\ updateInterval' = FALSE
    /\ intervals' = clearInterval(intervals, updateInterval)
    /\ tray' = Null
    /\ UNCHANGED <<scheduleManager, folder, setupDialog, lastLoad, uncaught, probeVars>>

AppClock == [hours |-> 8, minutes |-> 55, seconds |-> 0]

Init ==
    /\ scheduleManager = Null
    /\ today = "Monday"
    /\ clock = AppClock
    /\ lastQuery = NoQuery
    /\ TimeIdle
    /\ FmtIdle
    /\ HostIdle

Next ==
    \/ OverwriteFile
    \/ CreateFile
    \/ DeleteFile
    \/ FsEvent
    \/ WhenReady
    \/ FireFirstRun
    \/ FireReload
    \/ FireNoCallback
    \/ Tick
    \/ TrayClick
    \/ WatcherError
    \/ DismissSetupDialog
    \/ BeforeQuit

Spec == Init /\ [][Next]_vars

(***************************************************************************)
(* Claims about loading, stated on the shape of the parsed documents.      *)
(***************************************************************************)
\* the parsed document departs from the document shape: the top level, its
\* schedule or its config is not a mapping
DepartsFromShape(parsed) ==
    /\ parsed.ok
    /\ \/ parsed.val.kind # "map"
       \/ parsed.val.schedule.kind # "map"
       \/ parsed.val.config.kind # "map"

IsValidationError(message) ==
    message \in
        {"Failed to load schedule: Invalid schedule format: expected object",
         "Failed to load schedule: Invalid schedule format: missing or invalid schedule property",
         "Failed to load schedule: Invalid schedule format: missing or invalid config property"}

\* C9: a load or reload of a document whose top level is not an object, or
\* whose schedule or config is absent or not an object, fails with a
\* validation error
C9_ValidationRejectsNonObjects ==
    (lastLoad.op # "none" /\ DepartsFromShape(YAMLparse(lastLoad.source)))
        => IsValidationError(lastLoad.err)

\* C9 on the documents whose offending value is null, a scalar or absent, or
\* whose top level is a sequence: these loads fail with a validation error
C9_NonSequencesRejected ==
    (lastLoad.op # "none"
        /\ lastLoad.source \in {"Empty", "TopSeq", "ScalarSchedule", "NoConfig"})
        => IsValidationError(lastLoad.err)

\* C9 witness: a document whose schedule is a sequence has been loaded
\* without error and is the active document
C9_Witness ==
    /\ lastLoad.source = "SeqSchedule"
    /\ lastLoad.err = ""
    /\ scheduleManager # Null
    /\ scheduleManager[1].schedule.kind = "seq"

\* C9 witness: a document whose config is a sequence is the active document
C9_SeqConfigWitness ==
    /\ lastLoad.source = "SeqConfig"
    /\ lastLoad.err = ""
    /\ scheduleManager # Null
    /\ scheduleManager[1].config.kind = "seq"

\* a debounce timer firing with a callback that loads
LoadStep ==
    /\ debounceTimer = "pending"
    /\ debounceTimer' = "expired"
    /\ changeCallback \in {"firstRun", "reload"}

\* the candidate file is missing, or its text does not parse, or its document
\* has a null, scalar or absent value where a mapping is required
SourceFails(files) ==
    \/ \A i \in 1..Len(files) : ~IsYamlName(files[i].name)
    \/ \E i \in 1..Len(files) :
           /\ IsYamlName(files[i].name)
           /\ \A j \in 1..Len(files) :
                  IsYamlName(files[j].name) =>
                      \/ files[j].mtime < files[i].mtime
                      \/ (files[j].mtime = files[i].mtime /\ i <= j)
           /\ files[i].content \in
                  {"Syntax", "Empty", "TopSeq", "ScalarSchedule", "NoConfig"}

\* C10: a load or reload that fails leaves the active schedule and config as
\* they were, whether the file is missing, unreadable as YAML or fails
\* validation; the active document changes only in a load that succeeds, and
\* then schedule and config are both those of the document just read
C10_FailedReloadKeepsDocument ==
    [][/\ (LoadStep /\ lastLoad'.err # "") => scheduleManager' = scheduleManager
       /\ (LoadStep /\ changeCallback = "reload" /\ SourceFails(folder)) =>
              /\ lastLoad'.op = "reload"
              /\ lastLoad'.err # ""
              /\ scheduleManager' = scheduleManager
       /\ scheduleManager' # scheduleManager =>
              /\ lastLoad'.op # "none"
              /\ lastLoad'.err = ""
              /\ scheduleManager' # Null
              /\ scheduleManager'[1].schedule = YAMLparse(lastLoad'.source).val.schedule
              /\ scheduleManager'[1].config
                     = WithDefaults(YAMLparse(lastLoad'.source).val.config)]_vars

\* C10 witness: a reload of an empty file has failed while the document of
\* V1 stays active
C10_Witness ==
    /\ lastLoad.op = "reload"
    /\ lastLoad.source = "Empty"
    /\ IsValidationError(lastLoad.err)
    /\ scheduleManager # Null
    /\ scheduleManager[1].schedule = OnMonday(<<BlockA1, BlockB2>>)
    /\ scheduleManager[1].config.noClassText = Free
    /\ scheduleManager[1].config.countdownThreshold = 10

\* C10 witness: a reload has failed for a missing file while a document
\* stays active
C10_MissingFileWitness ==
    /\ lastLoad.op = "reload"
    /\ lastLoad.err = NoFileMessage
    /\ folder = <<>>
    /\ scheduleManager # Null

(***************************************************************************)
(* Claims about documents whose time texts break the format contract.      *)
(***************************************************************************)
ParseErrorMessage == "Invalid 12-hour time format"

\* C11: a document holding a block whose startTime or endTime breaks the
\* time-format contract fails the load that read it: it never becomes the
\* active document, and no query or tick raises the format error later
C11_BadTimeFailsLoad ==
    /\ (lastLoad.source = "BadTime" => lastLoad.err # "")
    /\ (scheduleManager # Null => NoBadTimes(TodaysList, Len(TodaysList)))
    /\ uncaught.err # ParseErrorMessage

\* C11 witness: the document with the start time "9 AM" was loaded without
\* error, is active, and a display tick has raised the format error
C11_Witness ==
    /\ lastLoad.source = "BadTime"
    /\ lastLoad.err = ""
    /\ scheduleManager # Null
    /\ TodaysList = <<BlockF6>>
    /\ uncaught = [op |-> "tick", err |-> ParseErrorMessage]

(***************************************************************************)
(* The file manager on its own, with time: watch, stop, watch events,      *)
(* watcher errors and the debounce timeout, and a log of what happened.    *)
(***************************************************************************)
MaxElapsed == 800
MaxEvents == 3
Slices == 3

\* "reload" returns, "throws" throws an exception
WatchCallbacks == {"reload", "throws"}

EventNames == {Null} \cup {Some(name) : name \in FileNames}

watchRest == <<timeVars, fmtVars, engineVars, folder, appPhase, tray, updateInterval, intervals,
               setupDialog, uncaught, lastLoad, candidate, tmpl>>

\* the spans of time that may pass at once: no timeout is overrun
Gaps(ts) ==
    {d \in {k * (DebounceMs \div Slices) : k \in 1..Slices} \cup {t.left : t \in ts} :
        d > 0 /\ \A t \in ts : d <= t.left}

LogEntry(kind, filename) == [at |-> now, kind |-> kind, filename |-> filename]

\* each call and event is logged once
Logged(kind, filename) ==
    /\ Cardinality(eventLog) < MaxEvents
    /\ LogEntry(kind, filename) \notin eventLog
    /\ eventLog' = eventLog \cup {LogEntry(kind, filename)}

\* watchScheduleFolder(callback) of a file manager that is not watching
Watch ==
    \E callback \in WatchCallbacks, watchOk \in BOOLEAN :
        /\ ~fileWatcher
        /\ SetFileManager(watchScheduleFolder(FileManager, callback, watchOk))
        /\ Logged(IF watchOk THEN "watch" ELSE "watchFailed", Null)
        /\ UNCHANGED <<now, callLog, watchRest>>

\* stopWatchingScheduleFolder(), watching or not
StopWatching ==
    /\ SetFileManager(stopWatchingScheduleFolder(FileManager))
    /\ Logged("stop", Null)
    /\ UNCHANGED <<now, callLog, watchRest>>

\* the open watcher reports a change, with or without a file name
WatchEvent ==
    \E filename \in EventNames :
        /\ fileWatcher
        /\ SetFileManager(Listener(FileManager, filename, now))
        /\ Logged("event", filename)
        /\ UNCHANGED <<now, callLog, watchRest>>

\* the open watcher reports an error
WatchError ==
    \E watchOk \in BOOLEAN :
        /\ fileWatcher
        /\ SetFileManager(OnWatcherError(FileManager, watchOk))
        /\ Logged("error", Null)
        /\ UNCHANGED <<now, callLog, watchRest>>

\* the body of the timeout: if (this.changeCallback) this.changeCallback()
Invoked(callback) ==
    callLog' = IF callback = "null"
               THEN callLog
               ELSE Append(callLog, [at |-> now, callback |-> callback])

\* a timeout whose time has come runs
TimerFire ==
    \E t \in timers :
        /\ t.left = 0
        /\ SetFileManager(CallbackCaught(TimerRuns(FileManager, t), Throws(changeCallback)))
        /\ Invoked(changeCallback)
        /\ UNCHANGED <<now, eventLog, watchRest>>

\* time passes, up to the next timeout
Advance ==
    \E d \in Gaps(timers) :
        /\ now + d <= MaxElapsed
        /\ now' = now + d
        /\ timers' = {[t EXCEPT !.left = @ - d] : t \in timers}
        /\ UNCHANGED <<fileWatcher, changeCallback, debounceTimer, eventLog, callLog,
                       watchRest>>

WatchInit == TimeIdle /\ FmtIdle /\ EngineIdle /\ HostIdle

WatchNext ==
    \/ Watch
    \/ StopWatching
    \/ WatchEvent
    \/ WatchError
    \/ TimerFire
    \/ Advance

SpecWatch == WatchInit /\ [][WatchNext]_vars

(***************************************************************************)
(* C12: the debounce                                                       *)
(***************************************************************************)
\* the names a schedule file may have
ScheduleNames == {NameA, NameB}

\* the instants of the events that name a schedule file
QualifyingAt ==
    {e.at : e \in {x \in eventLog : x.kind = "event" /\ x.filename # Null
                                    /\ x.filename[1] \in ScheduleNames}}

\* from a watch with a callback before t until one window after t, the file
\* manager was neither stopped nor restarted
WatchedThrough(t) ==
    \E w \in eventLog :
        /\ w.kind = "watch"
        /\ w.at <= t
        /\ \A e \in eventLog :
               (e.kind \in {"stop", "error", "watchFailed"})
                   => (e.at < w.at \/ e.at > t + DebounceMs)

\* no event naming a schedule file follows t within the window
EndsBurst(t) == \A u \in QualifyingAt : ~(t < u /\ u <= t + DebounceMs)

CallsAt(t) == {i \in DOMAIN callLog : callLog[i].at = t}

\* C12: every invocation of the callback comes exactly one window after an
\* event naming a schedule file, with no such event in between; an event that
\* ends its burst while the file manager keeps watching is answered
\* by exactly one invocation, one window later; and never is more than one
\* timeout outstanding.
C12_OneCallPerBurst ==
    /\ \A i \in DOMAIN callLog :
           /\ (callLog[i].at - DebounceMs) \in QualifyingAt
           /\ \A u \in QualifyingAt :
                  ~(callLog[i].at - DebounceMs < u /\ u < callLog[i].at)
    /\ \A t \in QualifyingAt :
           (EndsBurst(t) /\ WatchedThrough(t) /\ t + DebounceMs < now)
               => Cardinality(CallsAt(t + DebounceMs)) = 1
    /\ Cardinality(timers) <= 1

\* two events less than a window apart, answered by one invocation
C12_Witness ==
    /\ Len(callLog) = 1
    /\ \E t \in QualifyingAt, u \in QualifyingAt :
           /\ t < u
           /\ u < t + DebounceMs
           /\ WatchedThrough(t)
           /\ callLog[1].at = u + DebounceMs
           /\ now > u + DebounceMs

\* two events more than a window apart, answered by one invocation each
C12_SeparateWitness ==
    /\ Len(callLog) = 2
    /\ \E t \in QualifyingAt, u \in QualifyingAt :
           /\ t + DebounceMs < u
           /\ WatchedThrough(t)
           /\ callLog[1].at = t + DebounceMs
           /\ callLog[2].at = u + DebounceMs

(***************************************************************************)
(* C13: recovery from a watcher error                                      *)
(***************************************************************************)
\* the log entries of the given kinds
EntriesOf(kinds) == {e \in eventLog : e.kind \in kinds}

\* watch w, then the error x, then nothing but watch events until one window
\* after t
RecoveredThrough(w, x, t) ==
    /\ w.at <= x.at
    /\ x.at < t
    /\ \A e \in EntriesOf({"watch", "watchFailed", "stop", "error"}) \ {w, x} :
           e.at < w.at \/ e.at > t + DebounceMs

\* C13: after a watcher error met while watching with a callback, an event
\* naming a schedule file and a quiet window still bring an invocation of
\* the callback.
C13_CallbackSurvivesError ==
    \A w \in EntriesOf({"watch"}), x \in EntriesOf({"error"}), t \in QualifyingAt :
        (RecoveredThrough(w, x, t) /\ EndsBurst(t) /\ t + DebounceMs < now)
            => CallsAt(t + DebounceMs) # {}

\* the watcher is open again after the error, the event came, the window
\* passed, the timeout ran, and nothing was invoked
C13_Witness ==
    /\ fileWatcher
    /\ changeCallback = "null"
    /\ debounceTimer = "expired"
    /\ callLog = <<>>
    /\ \E w \in EntriesOf({"watch"}), x \in EntriesOf({"error"}), t \in QualifyingAt :
           RecoveredThrough(w, x, t) /\ EndsBurst(t) /\ t + DebounceMs < now

(***************************************************************************)
(* C14: the transitions between watching and not watching                  *)
(***************************************************************************)
\* the kinds of the entries this step adds to the log
StepKinds == {e.kind : e \in eventLog' \ eventLog}

\* C14: watching begins only by watch and ends only by stop; a watcher
\* error met while watching leaves the file manager watching.
C14_ErrorKeepsWatching ==
    [][/\ (~fileWatcher /\ fileWatcher') => StepKinds = {"watch"}
       /\ (fileWatcher /\ ~fileWatcher') => StepKinds = {"stop"}
       /\ (StepKinds = {"error"}) => fileWatcher']_vars

\* a watcher error was met, the file manager was never stopped, and it does
\* not watch
C14_Witness ==
    /\ ~fileWatcher
    /\ EntriesOf({"watch"}) # {}
    /\ EntriesOf({"error"}) # {}
    /\ EntriesOf({"stop", "watchFailed"}) = {}

(***************************************************************************)
(* C15: stopping                                                           *)
(***************************************************************************)
\* the file manager as constructed, and as stopWatchingScheduleFolder leaves it
StoppedFileManager ==
    [fileWatcher |-> FALSE, changeCallback |-> "null", debounceTimer |-> "null",
     timers |-> {}]

\* C15: stopWatchingScheduleFolder leaves no watcher and no timeout; called on
\* a file manager already stopped or never watching it changes nothing; the
\* callback is invoked only while the file manager watches, so not between a
\* stop and the next watch.
C15_StopCancelsAndReleases ==
    [][/\ (StepKinds = {"stop"}) => FileManager' = StoppedFileManager
       /\ (StepKinds = {"stop"} /\ FileManager = StoppedFileManager)
              => FileManager' = FileManager
       /\ (callLog' # callLog) => (fileWatcher /\ fileWatcher')
       /\ ~fileWatcher' => timers' = {}]_vars

\* an event naming a schedule file, a stop less than a window later, and
\* more than the window gone without an invocation
C15_Witness ==
    /\ callLog = <<>>
    /\ FileManager = StoppedFileManager
    /\ \E t \in QualifyingAt, s \in EntriesOf({"stop"}) :
           /\ t < s.at
           /\ s.at < t + DebounceMs
           /\ now > t + DebounceMs

\* a stop of a file manager that never watched
C15_NeverWatchingWitness ==
    /\ EntriesOf({"stop"}) # {}
    /\ EntriesOf({"watch", "watchFailed"}) = {}
    /\ FileManager = StoppedFileManager

(***************************************************************************)
(* C17: events that name no schedule file                                  *)
(***************************************************************************)
\* the event has no file name, or the name of a file that is no schedule file
NamesNoSchedule(e) ==
    e.kind = "event" /\ (e.filename = Null \/ e.filename[1] \notin ScheduleNames)

\* C17: an event without a file name, or with the name of a file that is no
\* schedule file, changes nothing in the file manager: the timeout, its
\* handle and the time left to it stay as they were, and nothing is invoked.
C17_OtherEventsIgnored ==
    [][\A e \in eventLog' \ eventLog :
           NamesNoSchedule(e) => (FileManager' = FileManager /\ callLog' = callLog)]_vars

\* such an event came while a timeout was pending, and the invocation came
\* one window after the event that set the timeout
C17_Witness ==
    \E t \in QualifyingAt, e \in eventLog :
        /\ NamesNoSchedule(e)
        /\ t < e.at
        /\ e.at < t + DebounceMs
        /\ CallsAt(t + DebounceMs) # {}

(***************************************************************************)
(* getMostRecentScheduleFile on its own: folders of a few files, present   *)
(* or missing.                                                             *)
(***************************************************************************)
MaxListed == 3
MaxStamp == 2

NameDots == <<".", ".", "y", "m", "l">>
NameSlash == <<"a", "/", "b", ".", "y", "m", "l">>
NameBackslash == <<"a", "\\", "b", ".", "y", "m", "l">>

ListedNames == {NameA, NameB, NameT, NameDots, NameSlash, NameBackslash}

folderRest == <<timeVars, fmtVars, engineVars, appPhase, fileWatcher, changeCallback,
                debounceTimer, timers, tray, updateInterval, intervals, setupDialog, uncaught,
                lastLoad, watchVars, tmpl>>

\* getMostRecentScheduleFile with fs.existsSync before the listing
MostRecentIn(exists, files) == IF exists THEN getMostRecentScheduleFile(files) ELSE 0

\* one more file in the listing of the folder
ListFile ==
    \E name \in ListedNames, mtime \in 0..MaxStamp :
        /\ candidate = Null
        /\ Len(folder) < MaxListed
        /\ IndexOf(folder, name) = 0
        /\ folder' = Append(folder, [name |-> name, mtime |-> mtime, content |-> "V1"])
        /\ UNCHANGED <<candidate, folderRest>>

\* getMostRecentScheduleFile() of the folder, or of a folder that is missing
AskMostRecent ==
    \E exists \in BOOLEAN :
        /\ candidate = Null
        /\ candidate' = Some([exists |-> exists, index |-> MostRecentIn(exists, folder)])
        /\ UNCHANGED <<folder, folderRest>>

FolderInit == TimeIdle /\ FmtIdle /\ EngineIdle /\ HostIdle

FolderNext == ListFile \/ AskMostRecent

SpecFolder == FolderInit /\ [][FolderNext]_vars

(***************************************************************************)
(* C16: the candidate file                                                 *)
(***************************************************************************)
\* the files of the listing a schedule may be read from
Eligible == {i \in DOMAIN folder : folder[i].name \in ScheduleNames}

Newest(i) == \A j \in Eligible : folder[j].mtime <= folder[i].mtime

Answered(answer) ==
    IF ~answer.exists \/ Eligible = {}
    THEN answer.index = 0
    ELSE answer.index \in Eligible /\ Newest(answer.index)

\* C16: the answer is an eligible file none of the eligible files is newer
\* than, and it is none exactly when the folder is missing or holds no
\* eligible file.
C16_NewestEligibleFile == candidate # Null => Answered(candidate[1])

\* the folder is there and its only eligible file has the modification
\* time 0, and the answer is none
C16_Witness ==
    /\ candidate # Null
    /\ candidate[1].exists
    /\ candidate[1].index = 0
    /\ \E i \in Eligible : folder[i].mtime = 0

(***************************************************************************)
(* C18: the defaults of the config                                         *)
(***************************************************************************)
\* the settings written in each document text that loads
WrittenSettings(source) ==
    IF source = "V1"
    THEN [countdownThreshold |-> Some(10), noClassText |-> Some(Free)]
    ELSE [countdownThreshold |-> Null, noClassText |-> Null]

\* a setting that was written is kept, one that was not has the default
SettingIs(written, value, default) ==
    IF written = Null THEN value = default ELSE value = written[1]

SettingsOf(written, config) ==
    /\ SettingIs(written.countdownThreshold, config.countdownThreshold, 30)
    /\ SettingIs(written.noClassText, config.noClassText, <<":", ")">>)

\* C18: after a load that succeeded the active config has the threshold and
\* the no-class text of the document where it has them, and 30 and ":)"
\* where it does not.
C18_DefaultsAfterLoad ==
    (lastLoad.op # "none" /\ lastLoad.err = "")
        => /\ scheduleManager # Null
           /\ SettingsOf(WrittenSettings(lastLoad.source), scheduleManager[1].config)

\* a document without settings was loaded
C18_Witness ==
    /\ lastLoad.source = "V2"
    /\ lastLoad.err = ""
    /\ scheduleManager # Null
    /\ scheduleManager[1].config.countdownThreshold = 30
    /\ scheduleManager[1].config.noClassText = <<":", ")">>

\* a document with both settings was loaded
C18_KeptWitness ==
    /\ lastLoad.source = "V1"
    /\ lastLoad.err = ""
    /\ scheduleManager # Null
    /\ scheduleManager[1].config.countdownThreshold = 10
    /\ scheduleManager[1].config.noClassText = Free

(***************************************************************************)
(* C19: queries of the host with no engine                                 *)
(***************************************************************************)
\* C19: while there is no engine, neither the tick nor the opening of the
\* tray menu raises an error nobody catches.
C19_UnloadedQueriesAreSafe == scheduleManager = Null => uncaught = NoUncaught

\* the first load failed, there is no engine, and a click on the tray has
\* thrown out of createContextMenu
C19_Witness ==
    /\ lastLoad.op = "construct"
    /\ lastLoad.err # ""
    /\ scheduleManager = Null
    /\ ~updateInterval
    /\ uncaught = [op |-> "click", err |-> NullManagerError]

(***************************************************************************)
(* C20: the missing schedule file                                          *)
(***************************************************************************)
\* a debounce timer firing with the reload callback
ReloadStep ==
    /\ debounceTimer = "pending"
    /\ debounceTimer' = "expired"
    /\ changeCallback = "reload"

\* the folder lists no schedule file
NoCandidate == \A i \in DOMAIN folder : folder[i].name \notin ScheduleNames

C20_OtherFailureWitness ==
    /\ lastLoad.op = "reload"
    /\ lastLoad.err \notin {"", NoFileMessage}
    /\ ~NoCandidate
    /\ ~setupDialog

(***************************************************************************)
(* Menu probe: the tray menu and the minutes from the end of the current   *)
(* block to the next one, on the generated day lists.                      *)
(***************************************************************************)
QueryMinutesFromEnd ==
    /\ scheduleManager # Null
    /\ lastQuery' = [op |-> "getMinutesFromEndOfCurrentClassToNextClass",
                     dateTime |-> clock,
                     result |-> getMinutesFromEndOfCurrentClassToNextClass(
                                    scheduleManager[1], today, clock)]
    /\ UNCHANGED <<scheduleManager, today, clock, timeVars, fmtVars, hostVars>>

QueryContextMenu ==
    /\ lastQuery' = [op |-> "createContextMenu", dateTime |-> clock,
                     result |-> createContextMenu(scheduleManager)]
    /\ UNCHANGED <<scheduleManager, today, clock, timeVars, fmtVars, hostVars>>

MenuNext == QueryMinutesFromEnd \/ QueryContextMenu

SpecMenu == QueryInit /\ [][MenuNext]_vars

(***************************************************************************)
(* C21: the "On Deck" preview                                              *)
(***************************************************************************)
\* minutes from the end of block c to the start of block n of the list
GapBetween(list, c, n) == StartOf(list[n]).minutes - EndOf(list[c]).minutes

GapIs(list, c, n, result) ==
    result = IF c = 0 \/ n = 0 THEN Null ELSE Some(GapBetween(list, c, n))

OnDeckIs(list, c, n, threshold, result) ==
    /\ result \in {"current", "currentOnDeck"}
    /\ (result = "currentOnDeck") <=> (n # 0 /\ GapBetween(list, c, n) <= threshold)

\* C21: on a list whose time texts parse, the minutes from the end of the
\* current block to the next are next.start - current.end, null when either
\* block is missing; and while a block is current the menu has the "On Deck"
\* submenu exactly when these minutes are not null and at most the
\* countdown threshold.
C21_OnDeckWithinThreshold ==
    NoBadTimes(TodaysList, Len(TodaysList)) =>
        /\ (lastQuery.op = "getMinutesFromEndOfCurrentClassToNextClass") =>
               /\ lastQuery.result.ok
               /\ GapIs(TodaysList, FirstCurrent(TodaysList, MinuteOf(lastQuery.dateTime)),
                        FirstAfter(TodaysList, MinuteOf(lastQuery.dateTime)),
                        lastQuery.result.val)
        /\ (lastQuery.op = "createContextMenu"
              /\ FirstCurrent(TodaysList, MinuteOf(lastQuery.dateTime)) # 0) =>
               /\ lastQuery.result.ok
               /\ OnDeckIs(TodaysList, FirstCurrent(TodaysList, MinuteOf(lastQuery.dateTime)),
                           FirstAfter(TodaysList, MinuteOf(lastQuery.dateTime)),
                           scheduleManager[1].config.countdownThreshold,
                           lastQuery.result.val)

\* at 10:00 in C3 (09:30-10:30) with E5 (starting 11:00) next and the
\* threshold 30: the minutes are 30 and the menu has the submenu
C21_Witness ==
    /\ lastQuery.op = "createContextMenu"
    /\ today = "Monday"
    /\ TodaysList = <<BlockC3, BlockE5>>
    /\ MinuteOf(lastQuery.dateTime) = 600
    /\ scheduleManager[1].config.countdownThreshold = 30
    /\ lastQuery.result = Ok("currentOnDeck")

\* the same with the threshold 10: no submenu
C21_BeyondThresholdWitness ==
    /\ lastQuery.op = "createContextMenu"
    /\ today = "Monday"
    /\ TodaysList = <<BlockC3, BlockE5>>
    /\ MinuteOf(lastQuery.dateTime) = 600
    /\ scheduleManager[1].config.countdownThreshold = 10
    /\ lastQuery.result = Ok("current")

\* the minutes between A1 (ending 10:05) and D4 (starting 1:30 PM)
C21_MinutesWitness ==
    /\ lastQuery.op = "getMinutesFromEndOfCurrentClassToNextClass"
    /\ today = "Monday"
    /\ TodaysList = <<BlockA1, BlockD4>>
    /\ MinuteOf(lastQuery.dateTime) = 570
    /\ lastQuery.result = Ok(Some(205))

(***************************************************************************)
(* ScheduleManager.renderDescriptionTemplate                               *)
(***************************************************************************)
TokenBlock == <<"$", "B", "l", "o", "c", "k">>
TokenDuration == <<"$", "D", "u", "r", "a", "t", "i", "o", "n">>
TokenStartTime == <<"$", "S", "t", "a", "r", "t", "T", "i", "m", "e">>
TokenEndTime == <<"$", "E", "n", "d", "T", "i", "m", "e">>

\* String(n) for an integer
IntToStr(n) == IF n < 0 THEN <<"-">> \o NatToStr(0 - n) ELSE NatToStr(n)

\* the JavaScript remainder a % b for b > 0: it has the sign of a
JsRem(a, b) == IF a < 0 THEN 0 - ((0 - a) % b) ELSE a % b

\* hours > 0 ? `${hours}:${String(minutes).padStart(2, '0')}` : `${minutes}`
DurationText(hours, minutes) ==
    IF hours > 0
    THEN IntToStr(hours) \o <<":">> \o padStart2(IntToStr(minutes))
    ELSE IntToStr(minutes)

\* durationStr of endMinutes - startMinutes; NaN gives "NaN"
DurationStr(startMinutes, endMinutes) ==
    IF startMinutes.t = "num" /\ endMinutes.t = "num"
    THEN DurationText((endMinutes.v - startMinutes.v) \div 60,
                      JsRem(endMinutes.v - startMinutes.v, 60))
    ELSE <<"N", "a", "N">>

\* the token stands at position i of s
TokenAt(s, i, token) ==
    /\ i + Len(token) - 1 <= Len(s)
    /\ SubSeq(s, i, i + Len(token) - 1) = token

\* the replacement string of String.prototype.replace with its patterns
\* $$ (a dollar sign) and $& (the matched text); the model's alphabet has
\* neither ` nor ', and the expressions have no groups
RECURSIVE Expand(_, _)
Expand(replacement, matched) ==
    IF replacement = <<>> THEN <<>>
    ELSE IF Len(replacement) >= 2 /\ replacement[1] = "$" /\ replacement[2] = "$"
    THEN <<"$">> \o Expand(SubSeq(replacement, 3, Len(replacement)), matched)
    ELSE IF Len(replacement) >= 2 /\ replacement[1] = "$" /\ replacement[2] = "&"
    THEN matched \o Expand(SubSeq(replacement, 3, Len(replacement)), matched)
    ELSE <<replacement[1]>> \o Expand(Tail(replacement), matched)

RECURSIVE ReplaceFrom(_, _, _, _)
ReplaceFrom(s, i, token, inserted) ==
    IF i > Len(s) THEN <<>>
    ELSE IF TokenAt(s, i, token)
    THEN inserted \o ReplaceFrom(s, i + Len(token), token, inserted)
    ELSE <<s[i]>> \o ReplaceFrom(s, i + 1, token, inserted)

\* s.replace(/token/g, replacement)
replaceAll(s, token, replacement) ==
    ReplaceFrom(s, 1, token, Expand(replacement, token))

\* the chain of the four replace calls
Substitute(template, blockName, durationStr, startTime12, endTime12) ==
    replaceAll(replaceAll(replaceAll(replaceAll(template, TokenBlock, blockName),
                                     TokenDuration, durationStr),
                          TokenStartTime, startTime12),
               TokenEndTime, endTime12)

\* String.prototype.split('\n')
RECURSIVE splitLines(_)
splitLines(s) ==
    IF \A i \in 1..Len(s) : s[i] # "\n" THEN <<s>>
    ELSE splitLines(SubSeq(s, 1, (CHOOSE i \in 1..Len(s) : s[i] = "\n"
                                       /\ \A j \in (i + 1)..Len(s) : s[j] # "\n") - 1))
             \o <<SubSeq(s, (CHOOSE i \in 1..Len(s) : s[i] = "\n"
                                 /\ \A j \in (i + 1)..Len(s) : s[j] # "\n") + 1, Len(s))>>

\* the lines kept as they are split, untrimmed
DisplayLines_Untrimmed(rendered) ==
    SelectSeq(splitLines(rendered), LAMBDA line : Len(line) > 0)

TrimEach(lines) == [i \in 1..Len(lines) |-> trim(lines[i])]

\* rendered.split('\n').map(line => line.trim()).filter(line => line.length > 0)
DisplayLines(rendered) ==
    SelectSeq(TrimEach(splitLines(rendered)), LAMBDA line : Len(line) > 0)

Rendering(rendered) == Ok([rendered |-> rendered, lines |-> DisplayLines(rendered)])

RenderTimes(template, classObj, startMinutes, endMinutes, startTime24, endTime24) ==
    IF ~startMinutes.ok THEN Threw(startMinutes.err)
    ELSE IF ~endMinutes.ok THEN Threw(endMinutes.err)
    ELSE Rendering(Substitute(template, classObj.blockName,
                              DurationStr(startMinutes.val, endMinutes.val),
                              formatTo12Hour(startTime24.val),
                              formatTo12Hour(endTime24.val)))

\* renderDescriptionTemplate: the substituted text and the lines returned, or
\* the exception of a time conversion
renderDescriptionTemplate(template, classObj) ==
    RenderTimes(template, classObj,
                timeToMinutes(classObj.startTime), timeToMinutes(classObj.endTime),
                normalizeTo24Hour(classObj.startTime), normalizeTo24Hour(classObj.endTime))

(***************************************************************************)
(* Template probe: templates put together from pieces, rendered for a      *)
(* block of the pool.                                                      *)
(***************************************************************************)
MaxPieces == 3

PieceTexts ==
    {TokenBlock, TokenDuration, TokenStartTime, TokenEndTime,
     <<"\n">>, <<" ">>, <<"-">>, <<"$">>,
     <<"$", "N", "a", "m", "e">>, <<"$", "b", "l", "o", "c", "k">>}

\* "$Block ($Duration)\n$StartTime-$EndTime"
ScenarioPieces ==
    <<TokenBlock, <<" ">>, <<"(">>, TokenDuration, <<")">>, <<"\n">>,
      TokenStartTime, <<"-">>, TokenEndTime>>

BlockS9 == Block(TokenDuration, T0930, T1030)
BlockP0 == Block(<<"A", "$", "$">>, T0930, T1030)

TemplateBlocks == {BlockA1, BlockB2, BlockC3, BlockD4, BlockE5, BlockS9, BlockP0}

RECURSIVE Joined(_)
Joined(pieces) == IF pieces = <<>> THEN <<>> ELSE Head(pieces) \o Joined(Tail(pieces))

tmplRest == <<timeVars, fmtVars, engineVars, folder, appPhase, fileWatcher, changeCallback,
              debounceTimer, timers, tray, updateInterval, intervals, setupDialog, uncaught,
              lastLoad, watchVars, candidate>>

\* a block and the beginning of a template are taken
TakeBlock ==
    \E classObj \in TemplateBlocks, pieces \in {<<>>, ScenarioPieces} :
        /\ tmpl.block = Null
        /\ tmpl' = [tmpl EXCEPT !.block = Some(classObj), !.pieces = pieces]
        /\ UNCHANGED tmplRest

\* the template grows by one piece
AddPiece ==
    \E piece \in PieceTexts :
        /\ tmpl.block # Null
        /\ ~tmpl.done
        /\ Len(tmpl.pieces) < MaxPieces
        /\ tmpl' = [tmpl EXCEPT !.pieces = Append(@, piece)]
        /\ UNCHANGED tmplRest

Rendered(result) ==
    tmpl' = [tmpl EXCEPT !.done = TRUE,
                         !.err = result.err,
                         !.rendered = IF result.ok THEN result.val.rendered ELSE <<>>,
                         !.lines = IF result.ok THEN result.val.lines ELSE <<>>]

\* renderDescriptionTemplate(template, classObj)
Render ==
    /\ tmpl.block # Null
    /\ ~tmpl.done
    /\ Rendered(renderDescriptionTemplate(Joined(tmpl.pieces), tmpl.block[1]))
    /\ UNCHANGED tmplRest

TemplateInit == TimeIdle /\ FmtIdle /\ EngineIdle /\ HostIdle

TemplateNext == TakeBlock \/ AddPiece \/ Render

SpecTemplate == TemplateInit /\ [][TemplateNext]_vars

(***************************************************************************)
(* C22: the four tokens                                                    *)
(***************************************************************************)
\* what stands for the tokens, block by block: the name, the duration, and
\* the two times in 12-hour form
ShownRow(name, duration, start, end) ==
    [name |-> name, duration |-> duration, start |-> start, end |-> end]

ShownTimes0930 ==
    [duration |-> <<"1", ":", "0", "0">>,
     start |-> <<"9", ":", "3", "0", " ", "A", "M">>,
     end |-> <<"1", "0", ":", "3", "0", " ", "A", "M">>]

Shown(classObj) ==
    CASE classObj = BlockA1 ->
           ShownRow(<<"A", "1">>, <<"1", ":", "0", "5">>,
                    <<"9", ":", "0", "0", " ", "A", "M">>,
                    <<"1", "0", ":", "0", "5", " ", "A", "M">>)
      [] classObj = BlockB2 ->
           ShownRow(<<"B", "2">>, <<"5", "5">>,
                    <<"1", "0", ":", "0", "5", " ", "A", "M">>,
                    <<"1", "1", ":", "0", "0", " ", "A", "M">>)
      [] classObj = BlockD4 ->
           ShownRow(<<"D", "4">>, <<"4", "5">>,
                    <<"1", ":", "3", "0", " ", "P", "M">>,
                    <<"2", ":", "1", "5", " ", "P", "M">>)
      [] classObj = BlockE5 ->
           ShownRow(<<"E", "5">>, <<"-", "5", "5">>,
                    <<"1", "1", ":", "0", "0", " ", "A", "M">>,
                    <<"1", "0", ":", "0", "5", " ", "A", "M">>)
      [] OTHER ->
           ShownRow(classObj.blockName, ShownTimes0930.duration, ShownTimes0930.start,
                    ShownTimes0930.end)

\* a piece that is one of the four tokens gives what stands for it, every
\* other piece gives itself
PieceShown(piece, shown) ==
    CASE piece = TokenBlock -> shown.name
      [] piece = TokenDuration -> shown.duration
      [] piece = TokenStartTime -> shown.start
      [] piece = TokenEndTime -> shown.end
      [] OTHER -> piece

RECURSIVE TextShown(_, _)
TextShown(pieces, shown) ==
    IF pieces = <<>> THEN <<>>
    ELSE PieceShown(Head(pieces), shown) \o TextShown(Tail(pieces), shown)

\* C22: the rendering has, for each of the four tokens, the block's name,
\* duration, start and end in its place and every other piece of the
\* template as it was; the template of scenario B for A1 gives the lines
\* "A1 (1:05)" and "9:00 AM-10:05 AM".
C22_FourTokensOnly ==
    tmpl.done =>
        /\ tmpl.err = ""
        /\ tmpl.rendered = TextShown(tmpl.pieces, Shown(tmpl.block[1]))
        /\ (tmpl.pieces = ScenarioPieces /\ tmpl.block[1] = BlockA1) =>
               tmpl.lines = << <<"A", "1", " ", "(", "1", ":", "0", "5", ")">>,
                               <<"9", ":", "0", "0", " ", "A", "M", "-",
                                 "1", "0", ":", "0", "5", " ", "A", "M">> >>

\* the template "$Block" for the block whose name is "$Duration": the
\* rendering is the duration, not the name
C22_Witness ==
    /\ tmpl.done
    /\ tmpl.block = Some(BlockS9)
    /\ tmpl.pieces = <<TokenBlock>>
    /\ tmpl.rendered = <<"1", ":", "0", "0">>

\* scenario B, rendered as the spec gives it
C22_ScenarioWitness ==
    /\ tmpl.done
    /\ tmpl.block = Some(BlockA1)
    /\ tmpl.pieces = ScenarioPieces
    /\ tmpl.lines = << <<"A", "1", " ", "(", "1", ":", "0", "5", ")">>,
                       <<"9", ":", "0", "0", " ", "A", "M", "-",
                         "1", "0", ":", "0", "5", " ", "A", "M">> >>

(***************************************************************************)
(* C23: the lines                                                          *)
(***************************************************************************)
Blank(c) == c \in {" ", "\t", "\n"}

\* the positions around the lines of the text: 0, each newline, the end
Breaks(text) == {0, Len(text) + 1} \cup {i \in 1..Len(text) : text[i] = "\n"}

\* the break that ends the line beginning after break a
BreakAfter(text, a) ==
    CHOOSE b \in Breaks(text) : b > a /\ \A x \in Breaks(text) : ~(a < x /\ x < b)

\* the positions of the line after break a that are not blank
Inked(text, a) == {i \in (a + 1)..(BreakAfter(text, a) - 1) : ~Blank(text[i])}

Lowest(S) == CHOOSE i \in S : \A j \in S : i <= j
Highest(S) == CHOOSE i \in S : \A j \in S : j <= i

\* the breaks followed by a line that is not blank
InkedLines(text) == {a \in Breaks(text) \ {Len(text) + 1} : Inked(text, a) # {}}

\* C23: the lines returned are the lines of the substituted text that are
\* not blank, in their order, each from its first to its last character
\* that is not blank; so no line returned is empty or begins or ends with
\* white space, and a blank template gives no line.
C23_LinesTrimmedNoneEmpty ==
    (tmpl.done /\ tmpl.err = "") =>
        /\ Len(tmpl.lines) = Cardinality(InkedLines(tmpl.rendered))
        /\ \A a \in InkedLines(tmpl.rendered) :
               tmpl.lines[Cardinality({x \in InkedLines(tmpl.rendered) : x <= a})]
                   = SubSeq(tmpl.rendered, Lowest(Inked(tmpl.rendered, a)),
                            Highest(Inked(tmpl.rendered, a)))
        /\ \A i \in 1..Len(tmpl.lines) :
               /\ tmpl.lines[i] # <<>>
               /\ ~Blank(tmpl.lines[i][1])
               /\ ~Blank(tmpl.lines[i][Len(tmpl.lines[i])])
        /\ (\A i \in 1..Len(tmpl.pieces) : tmpl.pieces[i] \in {<<" ">>, <<"\n">>})
               => tmpl.lines = <<>>

\* " $Block\n" for A1: the line trimmed, the empty line after it dropped
C23_Witness ==
    /\ tmpl.done
    /\ tmpl.block = Some(BlockA1)
    /\ tmpl.pieces = <<<<" ">>, TokenBlock, <<"\n">>>>
    /\ tmpl.rendered = <<" ", "A", "1", "\n">>
    /\ tmpl.lines = << <<"A", "1">> >>

\* a template of white space only gives no line
C23_BlankWitness ==
    /\ tmpl.done
    /\ tmpl.pieces = <<<<" ">>, <<"\n">>, <<" ">>>>
    /\ tmpl.lines = <<>>

(***************************************************************************)
(* Memory probe: getDisplayTime asked for moments the caller passes, on    *)
(* wall-clock days that pass, with the document replaced in between.  A    *)
(* moment passed as the argument is a Date: it has its own weekday beside  *)
(* its hours, minutes and seconds.  getTodaySchedule takes the weekday     *)
(* from new Date(), the wall clock, and never from the argument.           *)
(***************************************************************************)
WeekDays == {"Monday", "Tuesday"}

MemoryEngine(monday, tuesday) ==
    [schedule |-> [kind |-> "map",
                   days |-> [d \in WeekDays |-> IF d = "Monday" THEN monday ELSE tuesday]],
     config |-> [kind |-> "map", countdownThreshold |-> 30, noClassText |-> Smiley]]

MemoryEngines ==
    {MemoryEngine(<<BlockA1>>, <<>>), MemoryEngine(<<BlockA1>>, <<BlockA1>>),
     MemoryEngine(<<BlockC3, BlockD4>>, <<BlockB2>>)}

MemoryTimes ==
    {[hours |-> m \div 60, minutes |-> m % 60, seconds |-> x] :
        m \in {530, 570, 600}, x \in {0, 59}}

DateOf(dayName, time) ==
    [day |-> dayName, hours |-> time.hours, minutes |-> time.minutes,
     seconds |-> time.seconds]

\* what a getDisplayTime call leaves to compare: the argument, the document
\* the engine held, the wall-clock day of the call and the answer
Answer(engine, dateTime) ==
    [op |-> "getDisplayTime", dateTime |-> dateTime, document |-> engine, on |-> today,
     result |-> getDisplayTime(engine, today, dateTime)]

\* getDisplayTime(dateTime) with a moment of the caller's choice
AskDisplayTime ==
    \E d \in WeekDays, time \in MemoryTimes :
        /\ lastQuery' = Answer(scheduleManager[1], DateOf(d, time))
        /\ UNCHANGED <<scheduleManager, today, clock, timeVars, fmtVars, hostVars>>

\* getDisplayTime() as the tick calls it: dateTime = new Date()
TickDisplayTime ==
    /\ lastQuery' = Answer(scheduleManager[1], DateOf(today, clock))
    /\ UNCHANGED <<scheduleManager, today, clock, timeVars, fmtVars, hostVars>>

\* the wall clock moves on
TimePasses ==
    /\ today' \in WeekDays
    /\ clock' \in MemoryTimes
    /\ <<today', clock'>> # <<today, clock>>
    /\ UNCHANGED <<scheduleManager, lastQuery, timeVars, fmtVars, hostVars>>

\* reloadSchedule replaces the document
ReplaceDocument ==
    /\ scheduleManager' \in {Some(en) : en \in MemoryEngines \ {scheduleManager[1]}}
    /\ UNCHANGED <<today, clock, lastQuery, timeVars, fmtVars, hostVars>>

MemoryInit ==
    /\ scheduleManager \in {Some(en) : en \in MemoryEngines}
    /\ today \in WeekDays
    /\ clock \in MemoryTimes
    /\ lastQuery = NoQuery
    /\ TimeIdle
    /\ FmtIdle
    /\ HostIdle

MemoryNext ==
    \/ AskDisplayTime
    \/ TickDisplayTime
    \/ TimePasses
    \/ ReplaceDocument

SpecMemory == MemoryInit /\ [][MemoryNext]_vars

\* a getDisplayTime call answers the moment and the document of the answer
\* before it
SameQuestion ==
    /\ lastQuery.op = "getDisplayTime"
    /\ lastQuery'.op = "getDisplayTime"
    /\ lastQuery'.dateTime = lastQuery.dateTime
    /\ lastQuery'.document = lastQuery.document

\* C24: getDisplayTime has no memory between calls: its answer is determined
\* by the moment passed and the loaded document alone, so a call asked the
\* moment and holding the document of an earlier call gives the earlier
\* answer, whatever calls, clock changes or reloads lie between, and a call
\* leaves the engine as it was.
C24_AnswerOfMomentAndDocument ==
    [][/\ SameQuestion => lastQuery'.result = lastQuery.result
       /\ lastQuery' # lastQuery => scheduleManager' = scheduleManager]_vars

\* the moment "Monday 09:30" asked on a Tuesday of a document with a Monday
\* block from 9:00 to 10:05 and no Tuesday block: the answer is noClassText
C24_Witness ==
    /\ lastQuery.op = "getDisplayTime"
    /\ lastQuery.dateTime = [day |-> "Monday", hours |-> 9, minutes |-> 30, seconds |-> 0]
    /\ lastQuery.document = MemoryEngine(<<BlockA1>>, <<>>)
    /\ lastQuery.on = "Tuesday"
    /\ lastQuery.result = Ok(Smiley)

\* the same moment asked on a Monday of the same document
C24_MondayWitness ==
    /\ lastQuery.op = "getDisplayTime"
    /\ lastQuery.dateTime = [day |-> "Monday", hours |-> 9, minutes |-> 30, seconds |-> 0]
    /\ lastQuery.document = MemoryEngine(<<BlockA1>>, <<>>)
    /\ lastQuery.on = "Monday"
    /\ lastQuery.result = Ok(DoneIn \o <<"3", "5", ":", "0", "0">>)

(***************************************************************************)
(* C25: what the queries observe while documents are replaced.  Every      *)
(* handler of the host (tick, click, debounce callback) runs to its end    *)
(* before the next one starts, and loadSchedule reads and assigns without  *)
(* yielding, so a handler is one step.                                     *)
(***************************************************************************)
\* the document texts that load, with the Monday list each one writes
WrittenBlocks(source) ==
    CASE source = "V1" -> <<BlockA1, BlockB2>>
      [] source = "V2" -> <<BlockC3>>
      [] source = "SeqConfig" -> <<BlockA1>>
      [] source = "BadTime" -> <<BlockF6>>
      [] OTHER -> <<>>

LoadableTexts == {"V1", "V2", "SeqSchedule", "SeqConfig", "BadTime"}

\* the engine holds the schedule and the settings of the text source, with
\* the defaults where source writes no setting
GenerationOf(source, engine) ==
    /\ getTodaySchedule(engine.schedule, "Monday") = WrittenBlocks(source)
    /\ SettingsOf(WrittenSettings(source), engine.config)
    /\ engine.config.kind = (IF source = "SeqConfig" THEN "seq" ELSE "map")

\* what getDisplayTime answers on a Monday at 8:55:00 for the document of
\* each text: V1 has a block at 9:00 and the threshold 10, V2 a block at
\* 9:30 and the threshold 30, SeqConfig a block at 9:00 and the threshold
\* 30, SeqSchedule no block; the call throws for BadTime
TitlesAtAppClock ==
    {<<"N", "e", "x", "t", " ", "I", "n", ":", " ", "5", ":", "0", "0">>, <<":", ")">>}

\* C25: in every interleaving of ticks, menu queries and reload callbacks the
\* engine a query reads holds the schedule and the config of one single load,
\* the config with its defaults, and the title a query has put on the tray is
\* the answer for one single load, never for the schedule of one load and the
\* config of another.
C25_QueriesSeeOneGeneration ==
    /\ scheduleManager # Null =>
           \E source \in LoadableTexts : GenerationOf(source, scheduleManager[1])
    /\ (tray # Null /\ tray[1] # <<>>) => tray[1] \in TitlesAtAppClock

\* a reload has made the document of V2 active and a query has put the
\* answer for V2 on the tray, with the tick running
C25_Witness ==
    /\ lastLoad.op = "reload"
    /\ lastLoad.source = "V2"
    /\ lastLoad.err = ""
    /\ scheduleManager # Null
    /\ GenerationOf("V2", scheduleManager[1])
    /\ ~GenerationOf("V1", scheduleManager[1])
    /\ tray = Some(<<":", ")">>)
    /\ updateInterval

\* a reload has made the document of V1 active
C25_SettingsWitness ==
    /\ lastLoad.op = "reload"
    /\ lastLoad.source = "V1"
    /\ lastLoad.err = ""
    /\ scheduleManager # Null
    /\ GenerationOf("V1", scheduleManager[1])
    /\ tray # Null
    /\ tray[1] = <<"N", "e", "x", "t", " ", "I", "n", ":", " ", "5", ":", "0", "0">>

(***************************************************************************)
(* C26: when the watcher path refreshes the tray                           *)
(***************************************************************************)
\* a step that changes the folder or a field of the file manager
WatcherPathStep ==
    \/ folder' # folder
    \/ fileWatcher' # fileWatcher
    \/ changeCallback' # changeCallback
    \/ debounceTimer' # debounceTimer
    \/ timers' # timers

\* C26: the watcher path refreshes the tray only in the debounced callback
\* and only after its load has succeeded, the title then being the answer of
\* the document just loaded; a callback whose load fails leaves the tray as it
\* was; and the callback uses up the timeout of its quiet period, so that one
\* quiet period refreshes the tray at most once.
C26_RefreshOnlyAfterReload ==
    [][/\ (WatcherPathStep /\ appPhase' = appPhase /\ tray' # tray) =>
              /\ LoadStep
              /\ lastLoad'.op # "none"
              /\ lastLoad'.err = ""
              /\ \E source \in LoadableTexts : GenerationOf(source, scheduleManager'[1])
              /\ tray'[1] \in TitlesAtAppClock
       /\ (LoadStep /\ changeCallback = "reload" /\ SourceFails(folder)) =>
              /\ lastLoad'.err # ""
              /\ tray' = tray
       /\ LoadStep => (timers' # timers /\ timers' \subseteq timers)]_vars

\* the reload callback has loaded V1 and its answer is on the tray, and the
\* timeout is used up
C26_Witness ==
    /\ lastLoad.op = "reload"
    /\ lastLoad.source = "V1"
    /\ lastLoad.err = ""
    /\ debounceTimer = "expired"
    /\ timers = {}
    /\ tray = Some(<<"N", "e", "x", "t", " ", "I", "n", ":", " ", "5", ":", "0", "0">>)

\* the reload callback has failed on an empty file with a document active,
\* and the tray still has no title
C26_FailedWitness ==
    /\ lastLoad.op = "reload"
    /\ lastLoad.source = "Empty"
    /\ lastLoad.err # ""
    /\ debounceTimer = "expired"
    /\ scheduleManager # Null
    /\ tray = Some(<<>>)

(***************************************************************************)
(* Candidate probe: the host started on a folder of two schedule files,    *)
(* which are then rewritten with modification times of either order.       *)
(***************************************************************************)
MaxStampOfTwo == 2

TwoFileTexts == {"V1", "V2", "Empty"}

TwoFileFolders ==
    {<<[name |-> n[1], mtime |-> m[1], content |-> c[1]],
       [name |-> n[2], mtime |-> m[2], content |-> c[2]]>> :
        n \in {<<NameA, NameB>>, <<NameB, NameA>>},
        m \in (1..MaxStampOfTwo) \X (1..MaxStampOfTwo),
        c \in TwoFileTexts \X TwoFileTexts}

\* the events of the quiet period that is running or ran last
EventsOfBurst(name) ==
    (IF timers = {} THEN {} ELSE eventLog) \cup {LogEntry("event", Some(name))}

\* a file is rewritten, with a modification time before or after the other's
RewriteFile ==
    \E i \in 1..Len(folder), mtime \in 1..MaxStampOfTwo, content \in TwoFileTexts :
        /\ appPhase = "running"
        /\ <<mtime, content>> # <<folder[i].mtime, folder[i].content>>
        /\ folder' = [folder EXCEPT ![i] = [name |-> folder[i].name, mtime |-> mtime,
                                            content |-> content]]
        /\ FolderChanged(folder[i].name)
        /\ eventLog' = IF fileWatcher THEN EventsOfBurst(folder[i].name) ELSE eventLog
        /\ UNCHANGED <<scheduleManager, appPhase, tray, updateInterval, intervals, setupDialog,
                       lastLoad, uncaught, timeVars, fmtVars, today, clock, lastQuery,
                       now, callLog, candidate, tmpl>>

TwoFileInit ==
    /\ scheduleManager = Null
    /\ today = "Monday"
    /\ clock = AppClock
    /\ lastQuery = NoQuery
    /\ TimeIdle
    /\ FmtIdle
    /\ folder \in TwoFileFolders
    /\ appPhase = "launching"
    /\ fileWatcher = FALSE
    /\ changeCallback = "null"
    /\ debounceTimer = "null"
    /\ timers = {}
    /\ now = 0
    /\ eventLog = {}
    /\ callLog = <<>>
    /\ candidate = Null
    /\ tmpl = NoTemplate
    /\ tray = Null
    /\ updateInterval = FALSE
    /\ intervals = 0
    /\ setupDialog = FALSE
    /\ uncaught = NoUncaught
    /\ lastLoad = NoLoad

TwoFileNext ==
    \/ WhenReady
    \/ RewriteFile
    \/ FireReload
    \/ Tick

SpecTwoFiles == TwoFileInit /\ [][TwoFileNext]_vars

\* the events of the last quiet period named the file at index i only
OnlyNamed(i) == eventLog = {LogEntry("event", Some(folder[i].name))}

\* C27: after a debounced reload that succeeded the active document is the
\* document of a candidate file no candidate is newer than at the moment the
\* reload runs, whichever file the events named: a change to an older
\* candidate never makes it active.
C27_ReloadReadsNewest ==
    [][(LoadStep /\ changeCallback = "reload" /\ lastLoad'.err = "") =>
           /\ lastLoad'.op = "reload"
           /\ scheduleManager' # Null
           /\ \E i \in Eligible :
                  /\ Newest(i)
                  /\ lastLoad'.source = folder[i].content
                  /\ GenerationOf(folder[i].content, scheduleManager'[1])]_vars

\* the older file alone was rewritten, with the text of V2, and the reload
\* has left the document of the newer file, V1, active
C27_Witness ==
    /\ lastLoad.op = "reload"
    /\ lastLoad.err = ""
    /\ lastLoad.source = "V1"
    /\ debounceTimer = "expired"
    /\ timers = {}
    /\ \E i, j \in Eligible :
           /\ folder[i].mtime < folder[j].mtime
           /\ folder[i].content = "V2"
           /\ folder[j].content = "V1"
           /\ OnlyNamed(i)
    /\ scheduleManager # Null
    /\ GenerationOf("V1", scheduleManager[1])

\* the same with the older file listed first
C27_ListedFirstWitness ==
    /\ lastLoad.op = "reload"
    /\ lastLoad.err = ""
    /\ lastLoad.source = "V1"
    /\ debounceTimer = "expired"
    /\ timers = {}
    /\ folder[1].mtime < folder[2].mtime
    /\ folder[1].content = "V2"
    /\ OnlyNamed(1)
    /\ scheduleManager # Null
    /\ GenerationOf("V1", scheduleManager[1])

(***************************************************************************)
(* First run: the host is started on a folder without a schedule file,     *)
(* and files are placed while it runs.  A timeout that is set fires        *)
(* unless it is cleared, and setInterval's callback keeps being called:    *)
(* the fair specification says so of the debounced first-run callback.     *)
(***************************************************************************)
FirstRunTexts == {"V1", "V2", "Empty"}

\* a file is placed in the folder of the running host
PlaceFile ==
    \E name \in FileNames, content \in FirstRunTexts :
        /\ appPhase = "running"
        /\ folder = <<>>
        /\ content \in WrittenTo(name)
        /\ folder' = <<[name |-> name, mtime |-> 1, content |-> content]>>
        /\ FolderChanged(name)
        /\ UNCHANGED <<scheduleManager, appPhase, tray, updateInterval, intervals,
                       setupDialog, lastLoad, uncaught, probeVars>>

FirstRunNext ==
    \/ WhenReady
    \/ PlaceFile
    \/ DeleteFile
    \/ FsEvent
    \/ FireFirstRun
    \/ FireNoCallback
    \/ Tick
    \/ WatcherError
    \/ BeforeQuit

\* the timeout of the first-run callback is taken from the timers: it runs
\* (FireFirstRun), or stopWatchingScheduleFolder clears it
FirstRunTimeout ==
    /\ changeCallback = "firstRun"
    /\ \E t \in timers : timers' = timers \ {t}

\* a timeout that stays set is run
SpecFirstRun == Init /\ [][FirstRunNext]_vars /\ WF_timers(FirstRunTimeout)

\* the candidate of the folder is a schedule file with a valid document
ValidCandidate ==
    \E i \in Eligible : Newest(i) /\ folder[i].content \in {"V1", "V2"}

\* the first-run callback is registered with an open watcher, and its
\* timeout is running
FirstRunPending ==
    /\ appPhase = "running"
    /\ fileWatcher
    /\ changeCallback = "firstRun"
    /\ timers # {}

\* the engine is loaded and the one-second interval runs
LoadedAndTicking ==
    /\ scheduleManager # Null
    /\ updateInterval
    /\ intervals = 1

\* the start on a folder without a candidate
StartsUnloaded ==
    (appPhase = "launching" /\ appPhase' = "running" /\ Eligible = {}) =>
        /\ scheduleManager' = Null
        /\ changeCallback' = "firstRun"
        /\ ~updateInterval'
        /\ intervals' = 0

\* the first-run callback on a folder whose candidate does not load
FailedFirstRunKeepsWatching ==
    (LoadStep /\ changeCallback = "firstRun" /\ SourceFails(folder)) =>
        /\ scheduleManager' = scheduleManager
        /\ updateInterval' = updateInterval
        /\ fileWatcher' = fileWatcher
        /\ changeCallback' = "firstRun"

\* C28: started without a candidate file the host creates no engine and
\* registers the first-run callback; once a valid schedule file is there and
\* the debounce timeout runs, the engine gets loaded and the tick runs, unless
\* the folder changes again, the watcher reports an error or the app quits
\* first; never more than one tick interval runs, and it runs exactly while
\* updateInterval holds its handle; a first-run callback whose file does not
\* load leaves the engine as it was and the watcher and its callback in place.
C28_FirstRunLoadsAndTicks ==
    /\ [][StartsUnloaded /\ FailedFirstRunKeepsWatching]_vars
    /\ [](intervals <= 1 /\ (updateInterval <=> intervals = 1))
    /\ (FirstRunPending /\ ValidCandidate)
           ~> (LoadedAndTicking \/ ~ValidCandidate \/ changeCallback # "firstRun")

\* the first-run callback has loaded V1, the interval runs and the watcher
\* is still open with the first-run callback
C28_Witness ==
    /\ lastLoad.op = "construct"
    /\ lastLoad.source = "V1"
    /\ lastLoad.err = ""
    /\ changeCallback = "firstRun"
    /\ fileWatcher
    /\ debounceTimer = "expired"
    /\ LoadedAndTicking
    /\ ValidCandidate

\* the first-run callback has failed on an empty file after an earlier
\* success: the engine is kept and the interval runs
C28_KeptEngineWitness ==
    /\ lastLoad.op = "construct"
    /\ lastLoad.source = "Empty"
    /\ lastLoad.err # ""
    /\ changeCallback = "firstRun"
    /\ fileWatcher
    /\ debounceTimer = "expired"
    /\ LoadedAndTicking

\* the first-run callback has failed on an empty file: no engine, and the
\* watcher is open with the first-run callback
C28_FailedWitness ==
    /\ lastLoad.op = "construct"
    /\ lastLoad.source = "Empty"
    /\ lastLoad.err # ""
    /\ changeCallback = "firstRun"
    /\ fileWatcher
    /\ debounceTimer = "expired"
    /\ scheduleManager = Null
    /\ intervals = 0

(***************************************************************************)
(* C29: an exception of the callback                                       *)
(***************************************************************************)
\* the calls of a callback that threw
ThrownCalls == {i \in DOMAIN callLog : callLog[i].callback = "throws"}

\* nothing but watch events between the call at time c and one window after t
OnlyEventsBetween(c, t) ==
    /\ c <= t
    /\ \A e \in EntriesOf({"watch", "watchFailed", "stop", "error"}) :
           e.at < c \/ e.at > t + DebounceMs

\* this step is a call of a callback that throws
ThrowingCall ==
    /\ Len(callLog') = Len(callLog) + 1
    /\ callLog'[Len(callLog')].callback = "throws"

\* C29: an exception the callback throws when the debounce timeout runs is
\* caught by the watcher: the step leaves the watch handle open and the
\* callback registered and nothing uncaught, and a later event naming a
\* schedule file followed by a quiet window calls the callback again.
C29_CallbackExceptionCaught ==
    /\ [][ThrowingCall =>
              /\ fileWatcher' = fileWatcher
              /\ fileWatcher'
              /\ changeCallback' = "throws"
              /\ uncaught' = NoUncaught]_vars
    /\ [](\A i \in ThrownCalls, t \in QualifyingAt :
              (OnlyEventsBetween(callLog[i].at, t) /\ EndsBurst(t) /\ t + DebounceMs < now)
                  => \E j \in DOMAIN callLog :
                         /\ j > i
                         /\ callLog[j].at = t + DebounceMs
                         /\ callLog[j].callback = "throws")

\* the callback threw at 300, an event came later, and the callback was
\* called again one window after it
C29_Witness ==
    /\ Len(callLog) = 2
    /\ callLog[1] = [at |-> DebounceMs, callback |-> "throws"]
    /\ callLog[2].callback = "throws"
    /\ callLog[2].at > DebounceMs
    /\ fileWatcher
    /\ changeCallback = "throws"
    /\ \E t \in QualifyingAt : t >= DebounceMs /\ callLog[2].at = t + DebounceMs

(***************************************************************************)
(* C30: the countdowns that are shown                                      *)
(***************************************************************************)
\* every time text of the list denotes a minute of the day
AllTimesParse(list) ==
    \A i \in 1..Len(list) : StartOf(list[i]).kind = "ok" /\ EndOf(list[i]).kind = "ok"

\* the countdown texts of zero seconds
ZeroTexts == {<<"0", ":", "0", "0", ":", "0", "0">>, <<"0", ":", "0", "0">>}

\* str is the countdown of secs, and secs is a second or more
IsPositiveCountdown(str, secs) ==
    /\ secs >= 1
    /\ str \notin ZeroTexts
    /\ IsCountdownOf(str, secs)

\* C30: at every moment (seconds 0 to 59) of a document whose time texts all
\* parse, the countdown to the end of a current block is of a second or more,
\* the countdown to the start of a next block is of a second or more and the
\* minutes until it are one or more, and getDisplayTime returns neither
\* "Done In: 0:00:00" nor "Next In: 0:00:00".
C30_CountdownsPositive ==
    AllTimesParse(TodaysList) =>
        /\ lastQuery.result.ok
        /\ (lastQuery.op = "getTimeRemainingInClass" /\ lastQuery.result.val # Null) =>
               /\ FirstCurrent(TodaysList, MinuteOf(lastQuery.dateTime)) # 0
               /\ IsPositiveCountdown(lastQuery.result.val[1],
                      EndOf(TodaysList[FirstCurrent(TodaysList,
                                MinuteOf(lastQuery.dateTime))]).minutes * 60
                          - SecondOf(lastQuery.dateTime))
        /\ (lastQuery.op = "getTimeUntilNextClass" /\ lastQuery.result.val # Null) =>
               /\ FirstAfter(TodaysList, MinuteOf(lastQuery.dateTime)) # 0
               /\ IsPositiveCountdown(lastQuery.result.val[1],
                      StartOf(TodaysList[FirstAfter(TodaysList,
                                MinuteOf(lastQuery.dateTime))]).minutes * 60
                          - SecondOf(lastQuery.dateTime))
        /\ (lastQuery.op = "getMinutesUntilNextClass" /\ lastQuery.result.val # Null) =>
               lastQuery.result.val[1] >= 1
        /\ lastQuery.op = "getDisplayTime" =>
               \A zero \in ZeroTexts :
                   /\ lastQuery.result.val
                        # <<"D", "o", "n", "e", " ", "I", "n", ":", " ">> \o zero
                   /\ lastQuery.result.val
                        # <<"N", "e", "x", "t", " ", "I", "n", ":", " ">> \o zero

\* one second before the end of A1 (10:05 AM) the display is "Done In: 0:01"
C30_Witness ==
    /\ lastQuery.op = "getDisplayTime"
    /\ TodaysList = <<BlockA1>>
    /\ lastQuery.dateTime = [hours |-> 10, minutes |-> 4, seconds |-> 59]
    /\ lastQuery.result = Ok(<<"D", "o", "n", "e", " ", "I", "n", ":", " ", "0", ":", "0", "1">>)

\* one second before the start of A1 (9:00 AM) the display is "Next In: 0:01"
C30_NextWitness ==
    /\ lastQuery.op = "getDisplayTime"
    /\ TodaysList = <<BlockA1>>
    /\ lastQuery.dateTime = [hours |-> 8, minutes |-> 59, seconds |-> 59]
    /\ lastQuery.result = Ok(<<"N", "e", "x", "t", " ", "I", "n", ":", " ", "0", ":", "0", "1">>)

\* in the last minute before A1 the minutes until the next block are 1
C30_MinutesWitness ==
    /\ lastQuery.op = "getMinutesUntilNextClass"
    /\ TodaysList = <<BlockA1>>
    /\ lastQuery.dateTime = [hours |-> 8, minutes |-> 59, seconds |-> 59]
    /\ lastQuery.result = Ok(Some(1))

====
